---- MODULE Spec2Model ----
(***************************************************************************)
(* Multi-GPU competition scheduler (src/app/main_gpus.py): one worker per  *)
(* queue, strict serial execution inside a queue, a shared ownership map   *)
(* occupied_gpus guarded by gpu_lock, dynamic admission quota, retry with  *)
(* backoff.  The GPU probe (GPUMonitor) is external: every probe call is   *)
(* an independent read whose value is drawn with \E at the read.           *)
(***************************************************************************)
EXTENDS Integers, Sequences, FiniteSets, TLC

\* ------------------------------------------------------------------ bounds
NumGpus == 3
MaxMem == 1
MaxFailures == 1
MaxTime == 1
MaxQuotaParam == 3
RetryMaxTime == 2
MaxFailingTasks == 1
ShortCadence == 2
ContendGpus == 2
MaxCandidates == 3
MaxCommands == 3
MaxCalls == 2

\* -------------------------------------------------------- program constants
max_total_retries == 100
MinAvailableMem == 1

GpuIds == 0 .. (NumGpus - 1)
MemLevels == 0 .. MaxMem
NoQueue == 0
NoStats == [memory_free |-> -1, memory_used |-> -1, memory_total |-> -1]

VARIABLES
    gpus,                           \* self.gpus: candidate device list
    maximize_resource_utilization,  \* config flag
    memory_save_mode,               \* config flag (selector mode)
    gpu_left, min_gpu, max_gpu,     \* admission quota parameters
    retry_config,                   \* RetryConfig record
    queues,                         \* self.queues: queue_id -> list of Task
    queue_keys,                     \* list(self.queues.keys()): submit order
    occupied_gpus,                  \* self.occupied_gpus: gpu_id -> queue_id
    gpu_lock,                       \* self.gpu_lock: holder queue or NoQueue
    running,                        \* self.running
    now,                            \* time.time()
    pc,                             \* position of each queue worker
    task_idx,                       \* _run_queue: index of the current task
    gpu_ids,                        \* _execute_task_with_retry: acquired list
    admission,                      \* values read by _can_acquire_more_gpus
    candidate_gpus,                 \* find_available_gpus: filtered list
    result,                         \* outcome of execute_task
    outstanding,                    \* acquisitions minus releases per queue
    attempts,                       \* per task: pending -> running transitions
                                    \* since its last backoff entry
    quota,                          \* inputs/outputs of the quota functions
    status_writer,                  \* init_status_writer was called
    supervisor,                     \* position of the main thread in run()
    selection,                      \* inputs/result of a device-selection call
    sink,                           \* status sink: events of a queue since the
                                    \* start of its last completed attempt
    executions,                     \* per task: calls of execute_task
    execution,                      \* one task's commands and their runs
    legacy                          \* state of the single-loop scheduler

vars == <<gpus, maximize_resource_utilization, memory_save_mode, gpu_left,
          min_gpu, max_gpu, retry_config, queues, queue_keys, occupied_gpus,
          gpu_lock,
          running, now, pc, task_idx, gpu_ids, admission, candidate_gpus,
          result, outstanding, attempts, quota, status_writer, supervisor,
          selection, sink, executions, execution, legacy>>

configVars == <<gpus, maximize_resource_utilization, memory_save_mode,
                gpu_left, min_gpu, max_gpu, retry_config, status_writer>>

\* ----------------------------------------------------------------- helpers
Range(s) == {s[i] : i \in 1 .. Len(s)}
Min(a, b) == IF a <= b THEN a ELSE b
Max(a, b) == IF a >= b THEN a ELSE b
Prefix(s, n) == SubSeq(s, 1, Min(n, Len(s)))

\* ------------------------------------------------------- task file / tasks
\* Task dataclass with its defaults.
Task(queue_id, gpu_count, memory) ==
    [queue_id |-> queue_id, gpu_count |-> gpu_count,
     estimated_memory_gb |-> memory, status |-> "pending",
     assigned_gpus |-> <<>>, retry_count |-> 0, backoff_until |-> 0,
     error_type |-> ""]

\* Parsed task blocks (queue_id, gpu_count, memory) in file order.
command_tasks ==
    << <<1, 1, 1>>, <<2, 1, 1>>, <<2, 2, 1>> >>

\* _setup_tasks: group the blocks by queue id, keeping file order.
RECURSIVE KeysOf(_)
KeysOf(blocks) ==
    IF blocks = <<>> THEN <<>>
    ELSE LET before == KeysOf(SubSeq(blocks, 1, Len(blocks) - 1))
             qid == blocks[Len(blocks)][1]
         IN IF qid \in {before[i] : i \in 1 .. Len(before)}
            THEN before ELSE Append(before, qid)
QueueIdsOf(blocks) == {blocks[i][1] : i \in 1 .. Len(blocks)}
BlocksOf(blocks, qid) == SelectSeq(blocks, LAMBDA b : b[1] = qid)
SetupTasks(blocks) ==
    [qid \in QueueIdsOf(blocks) |->
        [i \in 1 .. Len(BlocksOf(blocks, qid)) |->
            Task(qid, BlocksOf(blocks, qid)[i][2], BlocksOf(blocks, qid)[i][3])]]

QueueIds == DOMAIN queues

\* ------------------------------------------------------- admission control
\* _get_current_user_gpu_count: loop over self.gpus; a device counts when it
\* is in occupied_gpus, otherwise when the probe reports user processes.
\* procs[d] is the truth value of GPUMonitor.get_user_processes_on_gpu(d).
RECURSIVE user_gpu_count_from(_, _, _)
user_gpu_count_from(i, occ, procs) ==
    IF i > Len(gpus) THEN 0
    ELSE (IF gpus[i] \in DOMAIN occ THEN 1
          ELSE IF procs[gpus[i]] THEN 1 ELSE 0)
         + user_gpu_count_from(i + 1, occ, procs)

get_current_user_gpu_count(occ, procs) == user_gpu_count_from(1, occ, procs)

\* _get_max_allowed_gpus: available_gpus counts devices whose free memory
\* is at least 1 GB; mem[d] is GPUMonitor.get_available_memory(d).
RECURSIVE available_gpus_from(_, _)
available_gpus_from(i, mem) ==
    IF i > Len(gpus) THEN 0
    ELSE (IF mem[gpus[i]] >= MinAvailableMem THEN 1 ELSE 0)
         + available_gpus_from(i + 1, mem)

\* the quota computed without the min_gpu floor
get_max_allowed_gpus_no_floor(mem) ==
    Max(0, Min(max_gpu, available_gpus_from(1, mem) - gpu_left))

get_max_allowed_gpus(mem) ==
    Max(0, Min(max_gpu, Max(min_gpu, available_gpus_from(1, mem) - gpu_left)))

\* the admission check that forgets the requested count
can_acquire_ignoring_count(count, current_used, max_allowed) ==
    current_used <= max_allowed

\* the admission check with a strict comparison
can_acquire_strict(count, current_used, max_allowed) ==
    current_used + count < max_allowed

\* _can_acquire_more_gpus
can_acquire_more_gpus(count, current_used, max_allowed) ==
    current_used + count <= max_allowed

\* ----------------------------------------------------------- ownership map
\* for gpu_id in gpu_ids: self.occupied_gpus[gpu_id] = queue_id
mark_occupied(occ, ids, queue_id) ==
    [d \in (DOMAIN occ) \cup Range(ids) |->
        IF d \in Range(ids) THEN queue_id ELSE occ[d]]

\* a release that leaves the ownership map as it is
release_gpus_leak(occ, ids, queue_id) == occ

\* _release_gpus: delete the entries of gpu_ids whose owner is queue_id.
release_gpus(occ, ids, queue_id) ==
    [d \in {x \in DOMAIN occ : ~(x \in Range(ids) /\ occ[x] = queue_id)} |->
        occ[d]]

\* ------------------------------------------------------ eligibility filter
\* a per-device test that does not look at the user's other processes
is_candidate_any_procs(d, occ, mem, procs, required_memory) ==
    /\ maximize_resource_utilization \/ d \notin DOMAIN occ
    /\ ~(mem[d] < required_memory)

\* find_available_gpus, first step: the per-device test of the filter loop.
is_candidate(d, occ, mem, procs, required_memory) ==
    /\ maximize_resource_utilization \/ d \notin DOMAIN occ
    /\ ~(mem[d] < required_memory)
    /\ maximize_resource_utilization \/ ~procs[d]

filter_candidates(occ, mem, procs, required_memory) ==
    SelectSeq(gpus, LAMBDA d : is_candidate(d, occ, mem, procs, required_memory))

\* ---------------------------------------------------------------- selector
\* GPUStats.memory_utilization * memory_free (save mode) or * memory_used,
\* kept as a fraction num/den so that scores compare exactly.
primary_num(st) ==
    IF st.memory_total > 0
    THEN st.memory_used * (IF memory_save_mode THEN st.memory_free
                                               ELSE st.memory_used)
    ELSE 0
primary_den(st) == IF st.memory_total > 0 THEN st.memory_total ELSE 1
secondary_score(st) ==
    IF memory_save_mode THEN st.memory_free ELSE st.memory_used

\* a key that compares the primary score only
score_less_primary(a, b) ==
    primary_num(a) * primary_den(b) < primary_num(b) * primary_den(a)

\* key (primary, secondary) of a strictly smaller than that of b
score_less(a, b) ==
    \/ primary_num(a) * primary_den(b) < primary_num(b) * primary_den(a)
    \/ /\ primary_num(a) * primary_den(b) = primary_num(b) * primary_den(a)
       /\ secondary_score(a) < secondary_score(b)

\* list.sort(key=...) is stable: an element goes after its equals.
RECURSIVE insert_sorted(_, _, _)
insert_sorted(sorted, d, stats) ==
    IF sorted = <<>> THEN <<d>>
    ELSE IF score_less(stats[d], stats[Head(sorted)])
         THEN <<d>> \o sorted
         ELSE <<Head(sorted)>> \o insert_sorted(Tail(sorted), d, stats)

RECURSIVE sort_scored(_, _)
sort_scored(ids, stats) ==
    IF ids = <<>> THEN <<>>
    ELSE insert_sorted(sort_scored(SubSeq(ids, 1, Len(ids) - 1), stats),
                       ids[Len(ids)], stats)

\* sample_gpu_stats: the keys of the samples dict, one per distinct id of
\* gpu_ids in the order of first occurrence.
RECURSIVE stats_keys(_)
stats_keys(ids) ==
    IF ids = <<>> THEN <<>>
    ELSE LET front == stats_keys(SubSeq(ids, 1, Len(ids) - 1))
         IN IF ids[Len(ids)] \in Range(front) THEN front
            ELSE Append(front, ids[Len(ids)])

\* GPUSelector.select_best_gpus on the averaged stats of sample_gpu_stats
\* (a device without any successful sample has no entry: NoStats).
select_best_gpus(ids, count, required_memory, stats) ==
    IF ids = <<>> \/ count <= 0 THEN <<>>
    ELSE Prefix(sort_scored(
                   SelectSeq(stats_keys(ids),
                             LAMBDA d : /\ stats[d] # NoStats
                                        /\ stats[d].memory_free >= required_memory),
                   stats),
                count)

\* a choice that returns the selector's result as it is
choose_gpus_no_fallback(cands, count, required_memory, stats) ==
    select_best_gpus(cands, count, required_memory, stats)

\* find_available_gpus, third step: smart selection with the fallback to the
\* first gpu_count candidates.
choose_gpus(cands, count, required_memory, stats) ==
    IF Len(select_best_gpus(cands, count, required_memory, stats)) >= count
    THEN Prefix(select_best_gpus(cands, count, required_memory, stats), count)
    ELSE Prefix(cands, count)

\* ------------------------------------------------------------ engine state
ErrorKinds == {"exit_code_1", "timeout", "OSError"}
Outcomes == {"ok", "fail", "raise"}
NoAdmission == [max_allowed |-> -1, user_procs |-> {}]

ProbeMem == [GpuIds -> MemLevels]
ProbeProcs == [GpuIds -> BOOLEAN]
StatsValues ==
    {NoStats} \cup [memory_free : MemLevels, memory_used : 0 .. 1,
                    memory_total : {MaxMem + 1}]

CurrentTask(q) == queues[q][task_idx[q]]

\* number of failed attempts so far, over all tasks
RECURSIVE retries_in(_, _)
retries_in(tasks, i) ==
    IF i > Len(tasks) THEN 0 ELSE tasks[i].retry_count + retries_in(tasks, i + 1)
RECURSIVE retries_of(_)
retries_of(qs) ==
    IF qs = {} THEN 0
    ELSE LET q == CHOOSE x \in qs : TRUE
         IN retries_in(queues[q], 1) + retries_of(qs \ {q})
TotalFailures == retries_of(QueueIds)

\* Devices handed to queue q by _wait_for_gpus and not yet released by it.
RunningDevices(q) ==
    IF pc[q] \in {"acquired", "executing", "finally"}
    THEN Range(gpu_ids[q]) ELSE {}

EngineInit ==
    /\ gpus = [i \in 1 .. NumGpus |-> i - 1]
    /\ maximize_resource_utilization \in BOOLEAN
    /\ memory_save_mode = TRUE
    /\ gpu_left = 1
    /\ min_gpu = 1
    /\ max_gpu = 2
    /\ retry_config = [max_retry_before_backoff |-> 1, backoff_duration |-> 1]
    /\ queues = SetupTasks(command_tasks)
    /\ queue_keys = KeysOf(command_tasks)
    /\ occupied_gpus = <<>>
    /\ gpu_lock = NoQueue
    /\ running = TRUE
    /\ status_writer = TRUE
    /\ supervisor = "waiting"
    /\ selection = <<>>
    /\ now = 0
    /\ pc = [q \in QueueIdsOf(command_tasks) |-> "queued"]
    /\ sink = [q \in QueueIdsOf(command_tasks) |-> <<>>]
    /\ executions = [q \in QueueIdsOf(command_tasks) |->
                       [i \in 1 .. Len(BlocksOf(command_tasks, q)) |-> 0]]
    /\ execution = <<>>
    /\ legacy = <<>>
    /\ task_idx = [q \in QueueIdsOf(command_tasks) |-> 1]
    /\ gpu_ids = [q \in QueueIdsOf(command_tasks) |-> <<>>]
    /\ admission = [q \in QueueIdsOf(command_tasks) |-> NoAdmission]
    /\ candidate_gpus = [q \in QueueIdsOf(command_tasks) |-> <<>>]
    /\ result = [q \in QueueIdsOf(command_tasks) |-> "none"]
    /\ outstanding = [q \in QueueIdsOf(command_tasks) |-> 0]
    /\ attempts = [q \in QueueIdsOf(command_tasks) |->
                     [i \in 1 .. Len(BlocksOf(command_tasks, q)) |-> 0]]
    /\ quota = <<>>

Init == EngineInit

\* ---------------------------------------------------------- worker control
\* run(): ThreadPoolExecutor(max_workers=min(len(queues), len(gpus)))
max_workers == Min(Cardinality(QueueIds), Len(gpus))

ActiveWorkers ==
    {q \in QueueIds : pc[q] \notin {"queued", "finished", "crashed"}}

\* position of queue q in the submission order
SubmitPos(q) == CHOOSE i \in 1 .. Len(queue_keys) : queue_keys[i] = q

\* _run_queue for-loop head at index i: where the worker goes next.
\* Returns <<pc, task index>>.
RECURSIVE loop_head(_, _)
loop_head(q, i) ==
    IF i > Len(queues[q]) THEN <<"finished", i>>
    ELSE IF ~running THEN <<"finished", i>>
    ELSE IF queues[q][i].status = "completed" THEN loop_head(q, i + 1)
    ELSE <<"retry_loop", i>>

\* a worker that goes on with the next task after a False
abort_queue_continue(q) == loop_head(q, task_idx[q] + 1)

\* _run_queue: what follows a False from _execute_task_with_retry.
abort_queue(q) == <<"finished", task_idx[q]>>

\* executor picks the next submitted queue when a pool thread is free
StartWorker(q) ==
    /\ pc[q] = "queued"
    /\ Cardinality(ActiveWorkers) < max_workers
    /\ \A p \in QueueIds : pc[p] = "queued" => SubmitPos(q) <= SubmitPos(p)
    /\ pc' = [pc EXCEPT ![q] = loop_head(q, 1)[1]]
    /\ task_idx' = [task_idx EXCEPT ![q] = loop_head(q, 1)[2]]
    /\ UNCHANGED <<configVars, queues, queue_keys, occupied_gpus, gpu_lock,
                   running, now, gpu_ids, admission, candidate_gpus, result,
                   outstanding, attempts, quota, supervisor, selection,
                   sink, executions, execution, legacy>>

\* _execute_task_with_retry: head of the while loop up to the call of
\* _wait_for_gpus; during backoff the worker sleeps and re-checks.
\* a retry loop without the backoff test
in_backoff_never(task) == FALSE

\* the backoff test of the retry loop
in_backoff(task) == task.backoff_until > 0 /\ now < task.backoff_until

\* a loop head that allows one attempt more at the ceiling
RetryLoop_one_more(q) ==
    /\ pc[q] = "retry_loop"
    /\ IF CurrentTask(q).retry_count > max_total_retries \/ ~running
       THEN /\ pc' = [pc EXCEPT ![q] = abort_queue(q)[1]]
            /\ task_idx' = [task_idx EXCEPT ![q] = abort_queue(q)[2]]
       ELSE /\ ~in_backoff(CurrentTask(q))
            /\ pc' = [pc EXCEPT ![q] = "wait_gpus"]
            /\ UNCHANGED task_idx
    /\ UNCHANGED <<configVars, queues, queue_keys, occupied_gpus, gpu_lock,
                   running, now, gpu_ids, admission, candidate_gpus,
                   result, outstanding, attempts,
                   quota, supervisor, selection,
                   sink, executions, execution, legacy>>

RetryLoop(q) ==
    /\ pc[q] = "retry_loop"
    /\ IF CurrentTask(q).retry_count >= max_total_retries \/ ~running
       THEN /\ pc' = [pc EXCEPT ![q] = abort_queue(q)[1]]
            /\ task_idx' = [task_idx EXCEPT ![q] = abort_queue(q)[2]]
       ELSE /\ ~in_backoff(CurrentTask(q))
            /\ pc' = [pc EXCEPT ![q] = "wait_gpus"]
            /\ UNCHANGED task_idx
    /\ UNCHANGED <<configVars, queues, queue_keys, occupied_gpus, gpu_lock,
                   running, now, gpu_ids, admission, candidate_gpus,
                   result, outstanding, attempts,
                   quota, supervisor, selection,
                   sink, executions, execution, legacy>>

\* ------------------------------------------------------------ device wait
\* a wait without timeout: after a poll without devices always the next poll
poll_failed_no_timeout(q, timed_out) == <<"wait_gpus", task_idx[q]>>

\* _wait_for_gpus after a poll without devices: sleep check_time, then the
\* while condition: either the wait timeout has passed (return None, the
\* queue is aborted) or the next poll.  Returns <<pc, task index>>.
poll_failed(q, timed_out) ==
    IF timed_out THEN abort_queue(q) ELSE <<"wait_gpus", task_idx[q]>>

\* the acquisition inside the critical section of _wait_for_gpus
Acquire(q, ids) ==
    /\ occupied_gpus' = mark_occupied(occupied_gpus, ids, q)
    /\ gpu_ids' = [gpu_ids EXCEPT ![q] = ids]
    /\ outstanding' = [outstanding EXCEPT ![q] = @ + 1]
    /\ gpu_lock' = NoQueue
    /\ admission' = [admission EXCEPT ![q] = NoAdmission]
    /\ candidate_gpus' = [candidate_gpus EXCEPT ![q] = <<>>]
    /\ pc' = [pc EXCEPT ![q] = "acquired"]
    /\ UNCHANGED task_idx

\* _wait_for_gpus: loop head, take gpu_lock, find_available_gpus up to the
\* dynamic reservation check (_can_acquire_more_gpus).
WaitForGpus(q) ==
    /\ pc[q] = "wait_gpus"
    /\ IF ~running
       THEN /\ pc' = [pc EXCEPT ![q] = abort_queue(q)[1]]
            /\ task_idx' = [task_idx EXCEPT ![q] = abort_queue(q)[2]]
            /\ UNCHANGED <<gpu_lock, admission>>
       ELSE /\ gpu_lock = NoQueue
            /\ \E procs \in [Range(gpus) \ DOMAIN occupied_gpus -> BOOLEAN],
                  mem \in [Range(gpus) -> MemLevels] :
                 LET current_used == get_current_user_gpu_count(occupied_gpus, procs)
                     max_allowed == get_max_allowed_gpus(mem)
                 IN IF can_acquire_more_gpus(CurrentTask(q).gpu_count,
                                             current_used, max_allowed)
                    THEN /\ gpu_lock' = q
                         /\ admission' = [admission EXCEPT ![q] =
                              [max_allowed |-> max_allowed,
                               user_procs |-> {d \in Range(gpus) :
                                     d \notin DOMAIN occupied_gpus /\ procs[d]}]]
                         /\ pc' = [pc EXCEPT ![q] = "filter"]
                         /\ UNCHANGED task_idx
                    ELSE /\ \E timed_out \in BOOLEAN :
                              /\ pc' = [pc EXCEPT ![q] =
                                           poll_failed(q, timed_out)[1]]
                              /\ task_idx' = [task_idx EXCEPT ![q] =
                                           poll_failed(q, timed_out)[2]]
                         /\ UNCHANGED <<gpu_lock, admission>>
    /\ UNCHANGED <<configVars, queues, queue_keys, occupied_gpus, running, now,
                   gpu_ids, candidate_gpus, result, outstanding, attempts,
                   quota, supervisor, selection,
                   sink, executions, execution, legacy>>

\* devices whose free memory the filter loop reads: all candidates, except
\* in non-maximize mode those in occupied_gpus (skipped before the read)
MemRead ==
    IF maximize_resource_utilization THEN Range(gpus)
    ELSE Range(gpus) \ DOMAIN occupied_gpus

\* devices whose user processes the filter loop reads: in non-maximize mode
\* those that passed the memory test, in maximize mode none
ProcsRead(mem, required_memory) ==
    IF maximize_resource_utilization THEN {}
    ELSE {d \in MemRead : ~(mem[d] < required_memory)}

\* find_available_gpus: the filter loop and the two early results (too few
\* candidates: None; exactly gpu_count: those), gpu_lock still held.
FilterGpus(q) ==
    /\ pc[q] = "filter"
    /\ gpu_lock = q
    /\ \E mem \in [MemRead -> MemLevels] :
       \E procs \in [ProcsRead(mem, CurrentTask(q).estimated_memory_gb)
                       -> BOOLEAN] :
         LET cands == filter_candidates(occupied_gpus, mem, procs,
                                        CurrentTask(q).estimated_memory_gb)
             count == CurrentTask(q).gpu_count
         IN IF Len(cands) < count
            THEN /\ \E timed_out \in BOOLEAN :
                      /\ pc' = [pc EXCEPT ![q] = poll_failed(q, timed_out)[1]]
                      /\ task_idx' = [task_idx EXCEPT ![q] =
                                         poll_failed(q, timed_out)[2]]
                 /\ gpu_lock' = NoQueue
                 /\ admission' = [admission EXCEPT ![q] = NoAdmission]
                 /\ UNCHANGED <<occupied_gpus, gpu_ids, candidate_gpus,
                                outstanding>>
            ELSE IF Len(cands) = count
            THEN Acquire(q, cands)
            ELSE /\ candidate_gpus' = [candidate_gpus EXCEPT ![q] = cands]
                 /\ pc' = [pc EXCEPT ![q] = "select"]
                 /\ UNCHANGED <<occupied_gpus, gpu_ids, gpu_lock, admission,
                                outstanding, task_idx>>
    /\ UNCHANGED <<configVars, queues, queue_keys, running, now, result,
                   attempts, quota, supervisor, selection,
                   sink, executions, execution, legacy>>

\* find_available_gpus: select_gpus with sampling on more candidates than
\* needed, then the acquisition; gpu_lock is held throughout.
SelectGpus(q) ==
    /\ pc[q] = "select"
    /\ gpu_lock = q
    /\ \E stats \in [Range(candidate_gpus[q]) -> StatsValues] :
         Acquire(q, choose_gpus(candidate_gpus[q], CurrentTask(q).gpu_count,
                                CurrentTask(q).estimated_memory_gb, stats))
    /\ UNCHANGED <<configVars, queues, queue_keys, running, now, result,
                   attempts, quota, supervisor, selection,
                   sink, executions, execution, legacy>>

\* --------------------------------------------------------- task execution
\* StatusWriter.on_task_start / on_task_success / on_task_fail, called when
\* a status writer was set up.  The log of a queue restarts with the
\* task_start that follows an outcome event.
on_task_start(log, gpu_id) ==
    IF ~status_writer THEN log
    ELSE IF log # <<>> /\ log[Len(log)].type # "task_start"
         THEN <<[type |-> "task_start", gpu |-> gpu_id]>>
         ELSE Append(log, [type |-> "task_start", gpu |-> gpu_id])

\* the events written after the finally block: task_success when
\* execute_task returned True, task_fail when it returned False, nothing
\* when it raised
on_task_outcome(log, outcome, gpu_id) ==
    IF ~status_writer \/ outcome = "raise" THEN log
    ELSE IF outcome = "ok"
         THEN Append(log, [type |-> "task_success", gpu |-> gpu_id])
         ELSE Append(log, [type |-> "task_fail", gpu |-> gpu_id])

\* _execute_task_with_retry: on_task_start, then execute_task's first
\* statements: the task records its devices and runs.
StartTask(q) ==
    /\ pc[q] = "acquired"
    /\ queues' = [queues EXCEPT ![q][task_idx[q]] =
                    [@ EXCEPT !.assigned_gpus = gpu_ids[q],
                              !.status = "running"]]
    /\ attempts' = [attempts EXCEPT ![q][task_idx[q]] = @ + 1]
    /\ executions' = [executions EXCEPT ![q][task_idx[q]] = @ + 1]
    /\ sink' = [sink EXCEPT ![q] = on_task_start(@, gpu_ids[q][1])]
    /\ pc' = [pc EXCEPT ![q] = "executing"]
    /\ UNCHANGED <<configVars, queue_keys, occupied_gpus, gpu_lock, running,
                   now, task_idx, gpu_ids, admission, candidate_gpus, result,
                   outstanding, quota, supervisor, selection,
                   execution, legacy>>

\* execute_task: cuda_devices = ','.join(map(str, gpu_ids)), the value of
\* CUDA_VISIBLE_DEVICES exported before each command of the attempt.
RECURSIVE cuda_devices(_)
cuda_devices(ids) ==
    IF ids = <<>> THEN ""
    ELSE IF Len(ids) = 1 THEN ToString(ids[1])
    ELSE ToString(ids[1]) \o "," \o cuda_devices(Tail(ids))

\* status written by execute_task when every command succeeded
status_on_success == "completed"

\* a backoff test that fires one failure late
enters_backoff_late(retry_count) ==
    retry_count % (retry_config.max_retry_before_backoff + 1) = 0

\* _handle_task_failure: the backoff test on the incremented retry_count
enters_backoff(retry_count) ==
    retry_count % retry_config.max_retry_before_backoff = 0

\* a failure handler that clears the backoff deadline outside backoff
handle_task_failure_reset(task, error_type) ==
    [task EXCEPT
        !.retry_count = @ + 1,
        !.error_type = error_type,
        !.backoff_until =
            IF enters_backoff(task.retry_count + 1)
            THEN now + retry_config.backoff_duration ELSE 0,
        !.status = "pending"]

\* a failure handler that keeps the old error tag
handle_task_failure_keep_tag(task, error_type) ==
    [task EXCEPT
        !.retry_count = @ + 1,
        !.backoff_until =
            IF enters_backoff(task.retry_count + 1)
            THEN now + retry_config.backoff_duration ELSE @,
        !.status = "pending"]

\* _handle_task_failure
handle_task_failure(task, error_type) ==
    [task EXCEPT
        !.retry_count = @ + 1,
        !.error_type = error_type,
        !.backoff_until =
            IF enters_backoff(task.retry_count + 1)
            THEN now + retry_config.backoff_duration ELSE @,
        !.status = "pending"]

\* execute_task: the command loop.  "ok": every command exited 0; "fail": a
\* command exited non-zero, timed out or raised inside the try block;
\* "raise": cmd_template.format raised outside the try block, the exception
\* leaves execute_task with the status still "running".  result keeps the
\* outcome, for a failure its kind tag.  may_fail bounds the failures
\* explored.
ExecuteTaskWithin(q, may_fail) ==
    /\ pc[q] = "executing"
    /\ \E outcome \in Outcomes, error_type \in ErrorKinds :
         /\ result' = [result EXCEPT ![q] =
                          IF outcome = "fail" THEN error_type ELSE outcome]
         /\ CASE outcome = "ok" ->
                   /\ error_type = "exit_code_1"
                   /\ queues' = [queues EXCEPT ![q][task_idx[q]].status =
                                    status_on_success]
                   /\ UNCHANGED attempts
              [] outcome = "fail" ->
                   /\ may_fail
                   /\ queues' = [queues EXCEPT ![q][task_idx[q]] =
                                    handle_task_failure(@, error_type)]
                   /\ attempts' = [attempts EXCEPT ![q][task_idx[q]] =
                          IF enters_backoff(CurrentTask(q).retry_count + 1)
                          THEN 0 ELSE @]
              [] outcome = "raise" ->
                   /\ error_type = "exit_code_1"
                   /\ UNCHANGED <<queues, attempts>>
    /\ pc' = [pc EXCEPT ![q] = "finally"]
    /\ UNCHANGED <<configVars, queue_keys, occupied_gpus, gpu_lock, running,
                   now, task_idx, gpu_ids, admission, candidate_gpus,
                   outstanding, quota, supervisor, selection,
                   sink, executions, execution, legacy>>

\* failures explored by Spec: MaxFailures in all, none after MaxTime
MayFail ==
    /\ TotalFailures < MaxFailures
    /\ now + retry_config.backoff_duration <= MaxTime

ExecuteTask(q) == ExecuteTaskWithin(q, MayFail)

\* a worker that swallows the exception of execute_task and goes on with the
\* next task
after_attempt_swallow(q, outcome) ==
    IF outcome \in {"raise", "ok"} THEN loop_head(q, task_idx[q] + 1)
    ELSE IF CurrentTask(q).status = "pending"
         THEN <<"retry_sleep", task_idx[q]>>
         ELSE abort_queue(q)

\* a worker that runs a task again after its success
after_attempt_repeat(q, outcome) ==
    IF outcome = "raise" THEN <<"crashed", task_idx[q]>>
    ELSE IF outcome = "ok" THEN <<"retry_loop", task_idx[q]>>
    ELSE IF CurrentTask(q).status = "pending"
         THEN <<"retry_sleep", task_idx[q]>>
         ELSE abort_queue(q)

\* _execute_task_with_retry after the finally block: where the worker goes.
\* Returns <<pc, task index>>.
after_attempt(q, outcome) ==
    IF outcome = "raise" THEN <<"crashed", task_idx[q]>>
    ELSE IF outcome = "ok" THEN loop_head(q, task_idx[q] + 1)
    ELSE IF CurrentTask(q).status = "pending"
         THEN <<"retry_sleep", task_idx[q]>>
         ELSE abort_queue(q)

\* the release written after the call instead of in a finally block: an
\* exception of execute_task skips it
ReleaseGpus_no_finally(q) ==
    /\ pc[q] = "finally"
    /\ gpu_lock = NoQueue
    /\ IF result[q] = "raise"
       THEN UNCHANGED <<occupied_gpus, outstanding>>
       ELSE /\ occupied_gpus' = release_gpus(occupied_gpus, gpu_ids[q], q)
            /\ outstanding' = [outstanding EXCEPT ![q] = @ - 1]
    /\ gpu_ids' = [gpu_ids EXCEPT ![q] = <<>>]
    /\ result' = [result EXCEPT ![q] = "none"]
    /\ pc' = [pc EXCEPT ![q] = after_attempt(q, result[q])[1]]
    /\ task_idx' = [task_idx EXCEPT ![q] = after_attempt(q, result[q])[2]]
    /\ sink' = [sink EXCEPT ![q] =
                    on_task_outcome(@, result[q], gpu_ids[q][1])]
    /\ UNCHANGED <<configVars, queues, queue_keys, gpu_lock, running, now,
                   admission, candidate_gpus, attempts,
                   quota, supervisor, selection,
                   executions, execution, legacy>>

\* the finally block (_release_gpus under gpu_lock) and the branch after it
ReleaseGpus(q) ==
    /\ pc[q] = "finally"
    /\ gpu_lock = NoQueue
    /\ occupied_gpus' = release_gpus(occupied_gpus, gpu_ids[q], q)
    /\ outstanding' = [outstanding EXCEPT ![q] = @ - 1]
    /\ gpu_ids' = [gpu_ids EXCEPT ![q] = <<>>]
    /\ result' = [result EXCEPT ![q] = "none"]
    /\ pc' = [pc EXCEPT ![q] = after_attempt(q, result[q])[1]]
    /\ task_idx' = [task_idx EXCEPT ![q] = after_attempt(q, result[q])[2]]
    /\ sink' = [sink EXCEPT ![q] =
                    on_task_outcome(@, result[q], gpu_ids[q][1])]
    /\ UNCHANGED <<configVars, queues, queue_keys, gpu_lock, running, now,
                   admission, candidate_gpus, attempts,
                   quota, supervisor, selection,
                   executions, execution, legacy>>

\* time.sleep(5) before the next attempt
RetrySleep(q) ==
    /\ pc[q] = "retry_sleep"
    /\ pc' = [pc EXCEPT ![q] = "retry_loop"]
    /\ UNCHANGED <<configVars, queues, queue_keys, occupied_gpus, gpu_lock,
                   running, now, task_idx, gpu_ids, admission, candidate_gpus,
                   result, outstanding, attempts,
                   quota, supervisor, selection,
                   sink, executions, execution, legacy>>

\* the wall clock advances
TickWithin(max_time) ==
    /\ now < max_time
    /\ now' = now + 1
    /\ UNCHANGED <<configVars, queues, queue_keys, occupied_gpus, gpu_lock,
                   running, pc, task_idx, gpu_ids, admission, candidate_gpus,
                   result, outstanding, attempts,
                   quota, supervisor, selection,
                   sink, executions, execution, legacy>>

Tick == TickWithin(MaxTime)

Next ==
    \/ \E q \in QueueIds : StartWorker(q)
    \/ \E q \in QueueIds : RetryLoop(q)
    \/ \E q \in QueueIds : WaitForGpus(q)
    \/ \E q \in QueueIds : FilterGpus(q)
    \/ \E q \in QueueIds : SelectGpus(q)
    \/ \E q \in QueueIds : StartTask(q)
    \/ \E q \in QueueIds : ExecuteTask(q)
    \/ \E q \in QueueIds : ReleaseGpus(q)
    \/ \E q \in QueueIds : RetrySleep(q)
    \/ Tick

Spec == Init /\ [][Next]_vars

\* ------------------------------------------------- quota functions, alone
\* The admission functions applied to drawn inputs: configuration, ownership
\* map and one probe reading; quota.count is the requested device count.
QuotaInit ==
    /\ gpus = [i \in 1 .. NumGpus |-> i - 1]
    /\ maximize_resource_utilization = FALSE
    /\ memory_save_mode = TRUE
    /\ gpu_left \in 0 .. 2
    /\ min_gpu \in 0 .. MaxQuotaParam
    /\ max_gpu \in 0 .. MaxQuotaParam
    /\ retry_config = [max_retry_before_backoff |-> 1, backoff_duration |-> 1]
    /\ queues = SetupTasks(command_tasks)
    /\ queue_keys = KeysOf(command_tasks)
    /\ \E held \in SUBSET GpuIds : occupied_gpus = [d \in held |-> 1]
    /\ gpu_lock = NoQueue
    /\ running = TRUE
    /\ status_writer = TRUE
    /\ supervisor = "waiting"
    /\ selection = <<>>
    /\ now = 0
    /\ pc = [q \in QueueIdsOf(command_tasks) |-> "queued"]
    /\ sink = [q \in QueueIdsOf(command_tasks) |-> <<>>]
    /\ executions = [q \in QueueIdsOf(command_tasks) |->
                       [i \in 1 .. Len(BlocksOf(command_tasks, q)) |-> 0]]
    /\ execution = <<>>
    /\ legacy = <<>>
    /\ task_idx = [q \in QueueIdsOf(command_tasks) |-> 1]
    /\ gpu_ids = [q \in QueueIdsOf(command_tasks) |-> <<>>]
    /\ admission = [q \in QueueIdsOf(command_tasks) |-> NoAdmission]
    /\ candidate_gpus = [q \in QueueIdsOf(command_tasks) |-> <<>>]
    /\ result = [q \in QueueIdsOf(command_tasks) |-> "none"]
    /\ outstanding = [q \in QueueIdsOf(command_tasks) |-> 0]
    /\ attempts = [q \in QueueIdsOf(command_tasks) |->
                     [i \in 1 .. Len(BlocksOf(command_tasks, q)) |-> 0]]
    /\ \E mem \in ProbeMem, procs \in ProbeProcs, n \in 1 .. 2 :
         quota = [mem |-> mem, procs |-> procs, count |-> n,
                  max_allowed |-> -1, decision |-> "none"]

\* _get_max_allowed_gpus on the drawn probe reading
QuotaCompute ==
    /\ quota.max_allowed = -1
    /\ quota' = [quota EXCEPT !.max_allowed = get_max_allowed_gpus(quota.mem)]
    /\ UNCHANGED <<configVars, queues, queue_keys, occupied_gpus, gpu_lock,
                   running, now, pc, task_idx, gpu_ids, admission,
                   candidate_gpus, result, outstanding,
                   attempts, supervisor, selection,
                   sink, executions, execution, legacy>>

\* _can_acquire_more_gpus on the drawn probe reading
QuotaAdmit ==
    /\ quota.max_allowed # -1
    /\ quota.decision = "none"
    /\ quota' = [quota EXCEPT !.decision =
          IF can_acquire_more_gpus(quota.count,
                get_current_user_gpu_count(occupied_gpus, quota.procs),
                quota.max_allowed)
          THEN "admitted" ELSE "denied"]
    /\ UNCHANGED <<configVars, queues, queue_keys, occupied_gpus, gpu_lock,
                   running, now, pc, task_idx, gpu_ids, admission,
                   candidate_gpus, result, outstanding,
                   attempts, supervisor, selection,
                   sink, executions, execution, legacy>>

QuotaNext == QuotaCompute \/ QuotaAdmit

SpecQuota == QuotaInit /\ [][QuotaNext]_vars

\* ------------------------------------------------- retry loop, one queue
\* One queue of two tasks on a single device, so that a task can fail up to
\* the retry ceiling; the backoff period is drawn short or half the ceiling.
retry_tasks ==
    << <<1, 1, 1>>, <<1, 1, 1>> >>

RetryCadences == {ShortCadence, max_total_retries \div 2}

RetryInit ==
    /\ gpus = <<0>>
    /\ maximize_resource_utilization = FALSE
    /\ memory_save_mode = TRUE
    /\ gpu_left = 0
    /\ min_gpu = 1
    /\ max_gpu = 1
    /\ \E n \in RetryCadences :
         retry_config = [max_retry_before_backoff |-> n, backoff_duration |-> 1]
    /\ queues = SetupTasks(retry_tasks)
    /\ queue_keys = KeysOf(retry_tasks)
    /\ occupied_gpus = <<>>
    /\ gpu_lock = NoQueue
    /\ running = TRUE
    /\ status_writer = TRUE
    /\ supervisor = "waiting"
    /\ selection = <<>>
    /\ now = 0
    /\ pc = [q \in QueueIdsOf(retry_tasks) |-> "queued"]
    /\ sink = [q \in QueueIdsOf(retry_tasks) |-> <<>>]
    /\ executions = [q \in QueueIdsOf(retry_tasks) |->
                       [i \in 1 .. Len(BlocksOf(retry_tasks, q)) |-> 0]]
    /\ execution = <<>>
    /\ legacy = <<>>
    /\ task_idx = [q \in QueueIdsOf(retry_tasks) |-> 1]
    /\ gpu_ids = [q \in QueueIdsOf(retry_tasks) |-> <<>>]
    /\ admission = [q \in QueueIdsOf(retry_tasks) |-> NoAdmission]
    /\ candidate_gpus = [q \in QueueIdsOf(retry_tasks) |-> <<>>]
    /\ result = [q \in QueueIdsOf(retry_tasks) |-> "none"]
    /\ outstanding = [q \in QueueIdsOf(retry_tasks) |-> 0]
    /\ attempts = [q \in QueueIdsOf(retry_tasks) |->
                     [i \in 1 .. Len(BlocksOf(retry_tasks, q)) |-> 0]]
    /\ quota = <<>>

\* tasks with failed attempts, the current task of queue q left out
OtherFailingTasks(q) ==
    {t \in {<<p, i>> : p \in QueueIds, i \in 1 .. Len(retry_tasks)} :
        /\ t[2] <= Len(queues[t[1]])
        /\ t # <<q, task_idx[q]>>
        /\ queues[t[1]][t[2]].retry_count > 0}

\* failures explored by SpecRetry: MaxFailingTasks tasks may fail, up to the
\* retry ceiling, none after RetryMaxTime
RetryMayFail(q) ==
    /\ Cardinality(OtherFailingTasks(q)) < MaxFailingTasks
    /\ now + retry_config.backoff_duration <= RetryMaxTime

RetryTick == TickWithin(RetryMaxTime)

\* with a single candidate device the selector step is never reached
RetryNext ==
    \/ \E q \in QueueIds : StartWorker(q)
    \/ \E q \in QueueIds : RetryLoop(q)
    \/ \E q \in QueueIds : WaitForGpus(q)
    \/ \E q \in QueueIds : FilterGpus(q)
    \/ \E q \in QueueIds : StartTask(q)
    \/ \E q \in QueueIds : ExecuteTaskWithin(q, RetryMayFail(q))
    \/ \E q \in QueueIds : ReleaseGpus(q)
    \/ \E q \in QueueIds : RetrySleep(q)
    \/ RetryTick

SpecRetry == RetryInit /\ [][RetryNext]_vars

\* ------------------------------------------- supervisor and interrupts
\* Two queues of one task each that may use one device at a time (max_gpu =
\* 1), on the single candidate device 0 or on devices 0 and 1, and the main
\* thread of run() with the interrupt signal.
contend_tasks ==
    << <<1, 1, 1>>, <<2, 1, 1>> >>

ContendInit ==
    /\ \E n \in 1 .. ContendGpus : gpus = [i \in 1 .. n |-> i - 1]
    /\ maximize_resource_utilization = FALSE
    /\ memory_save_mode = TRUE
    /\ gpu_left = 0
    /\ min_gpu = 1
    /\ max_gpu = 1
    /\ retry_config = [max_retry_before_backoff |-> 1, backoff_duration |-> 1]
    /\ queues = SetupTasks(contend_tasks)
    /\ queue_keys = KeysOf(contend_tasks)
    /\ occupied_gpus = <<>>
    /\ gpu_lock = NoQueue
    /\ running = TRUE
    /\ status_writer \in BOOLEAN
    /\ supervisor = "waiting"
    /\ selection = <<>>
    /\ now = 0
    /\ pc = [q \in QueueIdsOf(contend_tasks) |-> "queued"]
    /\ sink = [q \in QueueIdsOf(contend_tasks) |-> <<>>]
    /\ executions = [q \in QueueIdsOf(contend_tasks) |->
                       [i \in 1 .. Len(BlocksOf(contend_tasks, q)) |-> 0]]
    /\ execution = <<>>
    /\ legacy = <<>>
    /\ task_idx = [q \in QueueIdsOf(contend_tasks) |-> 1]
    /\ gpu_ids = [q \in QueueIdsOf(contend_tasks) |-> <<>>]
    /\ admission = [q \in QueueIdsOf(contend_tasks) |-> NoAdmission]
    /\ candidate_gpus = [q \in QueueIdsOf(contend_tasks) |-> <<>>]
    /\ result = [q \in QueueIdsOf(contend_tasks) |-> "none"]
    /\ outstanding = [q \in QueueIdsOf(contend_tasks) |-> 0]
    /\ attempts = [q \in QueueIdsOf(contend_tasks) |->
                     [i \in 1 .. Len(BlocksOf(contend_tasks, q)) |-> 0]]
    /\ quota = <<>>

\* a wait that ends with the first worker
WorkersEnded_any == \E q \in QueueIds : pc[q] \in {"finished", "crashed"}

\* every pool thread has returned from _run_queue (or died in it) and no
\* queue is left to pick
WorkersEnded == \A q \in QueueIds : pc[q] \in {"finished", "crashed"}

\* SIGINT while the main thread is in run().  With a StatusWriter its
\* _signal_handler removes the status file, restores the default action and
\* signals the process again: the process ends with all its threads.
\* Without one, KeyboardInterrupt is raised in the main thread: the first
\* one inside as_completed leaves the with-block, whose exit joins the pool
\* threads; one raised during that join reaches the except clause, which
\* clears self.running.
Interrupt ==
    /\ supervisor \in {"waiting", "joining"}
    /\ IF status_writer
       THEN /\ supervisor' = "killed"
            /\ pc' = [q \in QueueIds |-> "killed"]
            /\ UNCHANGED running
       ELSE IF supervisor = "waiting"
       THEN /\ supervisor' = "joining"
            /\ UNCHANGED <<pc, running>>
       ELSE /\ supervisor' = "stopped"
            /\ running' = FALSE
            /\ UNCHANGED pc
    /\ UNCHANGED <<configVars, queues, queue_keys, occupied_gpus, gpu_lock,
                   now, task_idx, gpu_ids, admission, candidate_gpus, result,
                   outstanding, attempts, quota, selection,
                   sink, executions, execution, legacy>>

\* run(): the exit of the with-block has joined every pool thread after an
\* interrupt; the except clause clears self.running.
SupervisorJoin ==
    /\ supervisor = "joining"
    /\ WorkersEnded
    /\ supervisor' = "stopped"
    /\ running' = FALSE
    /\ UNCHANGED <<configVars, queues, queue_keys, occupied_gpus, gpu_lock,
                   now, pc, task_idx, gpu_ids, admission, candidate_gpus,
                   result, outstanding, attempts, quota, selection,
                   sink, executions, execution, legacy>>

\* run(): as_completed has delivered every future; the final status.
SupervisorDone ==
    /\ supervisor = "waiting"
    /\ WorkersEnded
    /\ supervisor' = "done"
    /\ UNCHANGED <<configVars, queues, queue_keys, occupied_gpus, gpu_lock,
                   running, now, pc, task_idx, gpu_ids, admission,
                   candidate_gpus, result, outstanding, attempts, quota,
                   selection,
                   sink, executions, execution, legacy>>

ContendNext ==
    \/ \E q \in QueueIds : StartWorker(q)
    \/ \E q \in QueueIds : RetryLoop(q)
    \/ \E q \in QueueIds : WaitForGpus(q)
    \/ \E q \in QueueIds : FilterGpus(q)
    \/ \E q \in QueueIds : SelectGpus(q)
    \/ \E q \in QueueIds : StartTask(q)
    \/ \E q \in QueueIds : ExecuteTask(q)
    \/ \E q \in QueueIds : ReleaseGpus(q)
    \/ \E q \in QueueIds : RetrySleep(q)
    \/ Tick
    \/ Interrupt
    \/ SupervisorJoin
    \/ SupervisorDone

SpecContend == ContendInit /\ [][ContendNext]_vars

\* --------------------------------------------- progress under contention
\* The contention scenario without interrupts, under an environment in
\* which the device wait does not time out, a poll that passed admission
\* finds its devices, and cmd_template.format does not raise; commands may
\* still fail within the failure budget of Spec.
LiveWait(q) == WaitForGpus(q) /\ pc'[q] # "finished"
LiveFilter(q) == FilterGpus(q) /\ pc'[q] \in {"acquired", "select"}
LiveExecute(q) == ExecuteTask(q) /\ result'[q] # "raise"

\* the steps of the worker of queue q
LiveWorker(q) ==
    \/ StartWorker(q)
    \/ RetryLoop(q)
    \/ LiveWait(q)
    \/ LiveFilter(q)
    \/ SelectGpus(q)
    \/ StartTask(q)
    \/ LiveExecute(q)
    \/ ReleaseGpus(q)
    \/ RetrySleep(q)

LiveNext ==
    \/ \E q \in QueueIds : StartWorker(q)
    \/ \E q \in QueueIds : RetryLoop(q)
    \/ \E q \in QueueIds : LiveWait(q)
    \/ \E q \in QueueIds : LiveFilter(q)
    \/ \E q \in QueueIds : SelectGpus(q)
    \/ \E q \in QueueIds : StartTask(q)
    \/ \E q \in QueueIds : LiveExecute(q)
    \/ \E q \in QueueIds : ReleaseGpus(q)
    \/ \E q \in QueueIds : RetrySleep(q)
    \/ Tick
    \/ SupervisorDone

\* every thread that can run is scheduled again and again, and time passes
LiveFairness ==
    /\ \A q \in QueueIdsOf(contend_tasks) : WF_vars(LiveWorker(q))
    /\ WF_vars(Tick)
    /\ WF_vars(SupervisorDone)

SpecContendLive == ContendInit /\ [][LiveNext]_vars /\ LiveFairness

\* ------------------------------------------------------------ termination
\* The retry loop of one queue with the main thread of run(), under fair
\* scheduling: every worker step that stays possible is eventually taken,
\* the clock advances, and a device wait whose polls keep failing ends at
\* its timeout (each failed poll sleeps check_time, the wait lasts at most
\* timeout seconds).  Probe readings and command outcomes stay free.
RetryWorker(q) ==
    \/ StartWorker(q)
    \/ RetryLoop(q)
    \/ WaitForGpus(q)
    \/ FilterGpus(q)
    \/ StartTask(q)
    \/ ExecuteTaskWithin(q, RetryMayFail(q))
    \/ ReleaseGpus(q)
    \/ RetrySleep(q)

\* the poll after which _wait_for_gpus returns None
WaitEnds(q) ==
    /\ WaitForGpus(q) \/ FilterGpus(q)
    /\ pc'[q] = "finished"

RetryLiveNext ==
    \/ \E q \in QueueIds : StartWorker(q)
    \/ \E q \in QueueIds : RetryLoop(q)
    \/ \E q \in QueueIds : WaitForGpus(q)
    \/ \E q \in QueueIds : FilterGpus(q)
    \/ \E q \in QueueIds : StartTask(q)
    \/ \E q \in QueueIds : ExecuteTaskWithin(q, RetryMayFail(q))
    \/ \E q \in QueueIds : ReleaseGpus(q)
    \/ \E q \in QueueIds : RetrySleep(q)
    \/ RetryTick
    \/ SupervisorDone

RetryFairness ==
    /\ \A q \in QueueIdsOf(retry_tasks) :
         WF_vars(RetryWorker(q)) /\ SF_vars(WaitEnds(q))
    /\ WF_vars(RetryTick)
    /\ WF_vars(SupervisorDone)

SpecRetryLive == RetryInit /\ [][RetryLiveNext]_vars /\ RetryFairness

\* ---------------------------------------------------- selector, alone
\* select_best_gpus as a function: every candidate list (any order, with
\* repeats), count, required memory, mode and averaged stats.
RECURSIVE SeqsUpTo(_, _)
SeqsUpTo(S, n) ==
    IF n = 0 THEN {<<>>}
    ELSE SeqsUpTo(S, n - 1) \cup
         {Append(s, x) : s \in {t \in SeqsUpTo(S, n - 1) : Len(t) = n - 1},
                         x \in S}

SelectInit ==
    /\ gpus = [i \in 1 .. NumGpus |-> i - 1]
    /\ maximize_resource_utilization = FALSE
    /\ memory_save_mode \in BOOLEAN
    /\ gpu_left = 0
    /\ min_gpu = 1
    /\ max_gpu = NumGpus
    /\ retry_config = [max_retry_before_backoff |-> 1, backoff_duration |-> 1]
    /\ queues = SetupTasks(command_tasks)
    /\ queue_keys = KeysOf(command_tasks)
    /\ occupied_gpus = <<>>
    /\ gpu_lock = NoQueue
    /\ running = TRUE
    /\ status_writer = TRUE
    /\ supervisor = "waiting"
    /\ now = 0
    /\ pc = [q \in QueueIdsOf(command_tasks) |-> "queued"]
    /\ sink = [q \in QueueIdsOf(command_tasks) |-> <<>>]
    /\ executions = [q \in QueueIdsOf(command_tasks) |->
                       [i \in 1 .. Len(BlocksOf(command_tasks, q)) |-> 0]]
    /\ execution = <<>>
    /\ legacy = <<>>
    /\ task_idx = [q \in QueueIdsOf(command_tasks) |-> 1]
    /\ gpu_ids = [q \in QueueIdsOf(command_tasks) |-> <<>>]
    /\ admission = [q \in QueueIdsOf(command_tasks) |-> NoAdmission]
    /\ candidate_gpus = [q \in QueueIdsOf(command_tasks) |-> <<>>]
    /\ result = [q \in QueueIdsOf(command_tasks) |-> "none"]
    /\ outstanding = [q \in QueueIdsOf(command_tasks) |-> 0]
    /\ attempts = [q \in QueueIdsOf(command_tasks) |->
                     [i \in 1 .. Len(BlocksOf(command_tasks, q)) |-> 0]]
    /\ quota = <<>>
    /\ \E ids \in SeqsUpTo(GpuIds, MaxCandidates), count \in 0 .. MaxCandidates,
          required_memory \in MemLevels, stats \in [GpuIds -> StatsValues] :
         selection = [gpu_ids |-> ids, count |-> count,
                      required_memory |-> required_memory, stats |-> stats,
                      called |-> FALSE, selected |-> <<>>]

\* one call of select_best_gpus on the drawn arguments
SelectBest ==
    /\ ~selection.called
    /\ selection' = [selection EXCEPT
                       !.called = TRUE,
                       !.selected = select_best_gpus(selection.gpu_ids,
                                        selection.count,
                                        selection.required_memory,
                                        selection.stats)]
    /\ UNCHANGED <<configVars, queues, queue_keys, occupied_gpus, gpu_lock,
                   running, now, pc, task_idx, gpu_ids, admission,
                   candidate_gpus, result, outstanding, attempts, quota,
                   supervisor,
                   sink, executions, execution, legacy>>

SelectNext == SelectBest

SpecSelect == SelectInit /\ [][SelectNext]_vars

\* ------------------------------------------- find_available_gpus, alone
\* One call of find_available_gpus in non-maximize mode on every ownership
\* map, device count, required memory and probe reading of the filter loop;
\* the readings of the admission check and of the sampling are drawn when
\* they are taken.
FindInit ==
    /\ gpus = [i \in 1 .. NumGpus |-> i - 1]
    /\ maximize_resource_utilization = FALSE
    /\ memory_save_mode \in BOOLEAN
    /\ gpu_left = 0
    /\ min_gpu = 1
    /\ max_gpu = NumGpus
    /\ retry_config = [max_retry_before_backoff |-> 1, backoff_duration |-> 1]
    /\ queues = SetupTasks(command_tasks)
    /\ queue_keys = KeysOf(command_tasks)
    /\ \E held \in SUBSET GpuIds : occupied_gpus = [d \in held |-> 1]
    /\ gpu_lock = NoQueue
    /\ running = TRUE
    /\ status_writer = TRUE
    /\ supervisor = "waiting"
    /\ now = 0
    /\ pc = [q \in QueueIdsOf(command_tasks) |-> "queued"]
    /\ sink = [q \in QueueIdsOf(command_tasks) |-> <<>>]
    /\ executions = [q \in QueueIdsOf(command_tasks) |->
                       [i \in 1 .. Len(BlocksOf(command_tasks, q)) |-> 0]]
    /\ execution = <<>>
    /\ legacy = <<>>
    /\ task_idx = [q \in QueueIdsOf(command_tasks) |-> 1]
    /\ gpu_ids = [q \in QueueIdsOf(command_tasks) |-> <<>>]
    /\ admission = [q \in QueueIdsOf(command_tasks) |-> NoAdmission]
    /\ candidate_gpus = [q \in QueueIdsOf(command_tasks) |-> <<>>]
    /\ result = [q \in QueueIdsOf(command_tasks) |-> "none"]
    /\ outstanding = [q \in QueueIdsOf(command_tasks) |-> 0]
    /\ attempts = [q \in QueueIdsOf(command_tasks) |->
                     [i \in 1 .. Len(BlocksOf(command_tasks, q)) |-> 0]]
    /\ quota = <<>>
    /\ \E gpu_count \in 1 .. NumGpus, required_memory \in MemLevels,
          mem \in ProbeMem, procs \in ProbeProcs :
         selection = [gpu_count |-> gpu_count,
                      required_memory |-> required_memory,
                      mem |-> mem, procs |-> procs, at |-> "admission",
                      admitted |-> FALSE, candidate_gpus |-> <<>>,
                      best_gpus |-> <<>>, found |-> FALSE,
                      selected |-> <<>>]

\* find_available_gpus, the admission check: return None when denied
FindAdmit ==
    /\ selection.at = "admission"
    /\ \E procs \in [Range(gpus) \ DOMAIN occupied_gpus -> BOOLEAN],
          mem \in [Range(gpus) -> MemLevels] :
         IF can_acquire_more_gpus(selection.gpu_count,
                get_current_user_gpu_count(occupied_gpus, procs),
                get_max_allowed_gpus(mem))
         THEN selection' = [selection EXCEPT !.at = "filter",
                                             !.admitted = TRUE]
         ELSE selection' = [selection EXCEPT !.at = "returned"]
    /\ UNCHANGED <<configVars, queues, queue_keys, occupied_gpus, gpu_lock,
                   running, now, pc, task_idx, gpu_ids, admission,
                   candidate_gpus, result, outstanding, attempts, quota,
                   supervisor,
                   sink, executions, execution, legacy>>

\* find_available_gpus, the filter loop and the choice among the survivors
FindFilter ==
    /\ selection.at = "filter"
    /\ LET cands == filter_candidates(occupied_gpus, selection.mem,
                                      selection.procs,
                                      selection.required_memory)
       IN IF Len(cands) < selection.gpu_count
          THEN selection' = [selection EXCEPT !.at = "returned",
                                              !.candidate_gpus = cands]
          ELSE IF Len(cands) = selection.gpu_count
          THEN selection' = [selection EXCEPT !.at = "returned",
                                              !.candidate_gpus = cands,
                                              !.found = TRUE,
                                              !.selected = cands]
          ELSE \E stats \in [Range(cands) -> StatsValues] :
                 selection' = [selection EXCEPT
                     !.at = "returned",
                     !.candidate_gpus = cands,
                     !.best_gpus = select_best_gpus(cands,
                                      selection.gpu_count,
                                      selection.required_memory, stats),
                     !.found = TRUE,
                     !.selected = choose_gpus(cands, selection.gpu_count,
                                      selection.required_memory, stats)]
    /\ UNCHANGED <<configVars, queues, queue_keys, occupied_gpus, gpu_lock,
                   running, now, pc, task_idx, gpu_ids, admission,
                   candidate_gpus, result, outstanding, attempts, quota,
                   supervisor,
                   sink, executions, execution, legacy>>

FindNext == FindAdmit \/ FindFilter

SpecFind == FindInit /\ [][FindNext]_vars

\* ------------------------------------------------- execute_task, alone
\* What one command of a task does when its turn comes: exit code 0, a
\* non-zero exit code, the 2 h timeout, an exception of subprocess.run, or an
\* exception of cmd_template.format before the command is started.
CmdOutcomes == {"exit_0", "exit_1", "timeout", "error", "format_error"}

\* a loop that runs the first command only
run_commands_first_only(outcomes, i) ==
    IF i > Len(outcomes) THEN [ran |-> <<>>, returned |-> "True"]
    ELSE IF outcomes[i] = "format_error"
         THEN [ran |-> <<>>, returned |-> "raised"]
         ELSE [ran |-> <<i>>,
               returned |-> IF outcomes[i] = "exit_0" THEN "True" ELSE "False"]

\* execute_task, the loop over task.commands from index i: the commands run
\* and what the call returns.
RECURSIVE run_commands(_, _)
run_commands(outcomes, i) ==
    IF i > Len(outcomes) THEN [ran |-> <<>>, returned |-> "True"]
    ELSE IF outcomes[i] = "format_error"
         THEN [ran |-> <<>>, returned |-> "raised"]
    ELSE IF outcomes[i] = "exit_0"
         THEN [ran |-> <<i>> \o run_commands(outcomes, i + 1).ran,
               returned |-> run_commands(outcomes, i + 1).returned]
         ELSE [ran |-> <<i>>, returned |-> "False"]

\* a task of 0 .. MaxCommands commands, before its first attempt
ExecInit ==
    /\ gpus = [i \in 1 .. NumGpus |-> i - 1]
    /\ maximize_resource_utilization = FALSE
    /\ memory_save_mode = TRUE
    /\ gpu_left = 0
    /\ min_gpu = 1
    /\ max_gpu = NumGpus
    /\ retry_config = [max_retry_before_backoff |-> 1, backoff_duration |-> 1]
    /\ queues = SetupTasks(command_tasks)
    /\ queue_keys = KeysOf(command_tasks)
    /\ occupied_gpus = <<>>
    /\ gpu_lock = NoQueue
    /\ running = TRUE
    /\ status_writer = TRUE
    /\ supervisor = "waiting"
    /\ now = 0
    /\ pc = [q \in QueueIdsOf(command_tasks) |-> "queued"]
    /\ sink = [q \in QueueIdsOf(command_tasks) |-> <<>>]
    /\ executions = [q \in QueueIdsOf(command_tasks) |->
                       [i \in 1 .. Len(BlocksOf(command_tasks, q)) |-> 0]]
    /\ legacy = <<>>
    /\ task_idx = [q \in QueueIdsOf(command_tasks) |-> 1]
    /\ gpu_ids = [q \in QueueIdsOf(command_tasks) |-> <<>>]
    /\ admission = [q \in QueueIdsOf(command_tasks) |-> NoAdmission]
    /\ candidate_gpus = [q \in QueueIdsOf(command_tasks) |-> <<>>]
    /\ result = [q \in QueueIdsOf(command_tasks) |-> "none"]
    /\ outstanding = [q \in QueueIdsOf(command_tasks) |-> 0]
    /\ attempts = [q \in QueueIdsOf(command_tasks) |->
                     [i \in 1 .. Len(BlocksOf(command_tasks, q)) |-> 0]]
    /\ quota = <<>>
    /\ selection = <<>>
    /\ \E n \in 0 .. MaxCommands :
         execution = [commands |-> n, calls |-> 0, outcomes |-> <<>>,
                      ran |-> <<>>, returned |-> "none"]

\* one call of execute_task: the first attempt, or the retry after a call
\* that returned False
ExecuteCommands ==
    /\ execution.calls < MaxCalls
    /\ execution.returned \in {"none", "False"}
    /\ \E outcomes \in [1 .. execution.commands -> CmdOutcomes] :
         execution' = [execution EXCEPT
                          !.calls = @ + 1,
                          !.outcomes = outcomes,
                          !.ran = run_commands(outcomes, 1).ran,
                          !.returned = run_commands(outcomes, 1).returned]
    /\ UNCHANGED <<configVars, queues, queue_keys, occupied_gpus, gpu_lock,
                   running, now, pc, task_idx, gpu_ids, admission,
                   candidate_gpus, result, outstanding, attempts, quota,
                   supervisor, selection, sink, executions, legacy>>

ExecNext == ExecuteCommands

SpecExec == ExecInit /\ [][ExecNext]_vars

\* ------------------------------------------ single-loop scheduler (legacy)
\* src/main_gpus.py: one main loop dispatches the head tasks of idle queues;
\* the commands start a background process that reports its state in the
\* process JSON under the task's uni_id.  Device search is reduced to its
\* result (devices found or None).
legacy_tasks ==
    << <<1, 1, 1>>, <<1, 1, 1>>, <<2, 1, 1>> >>

\* _setup_tasks: self.tasks in file order; uni_id counts the ids generated
\* for the task.
LegacySetupTasks(blocks) ==
    [i \in 1 .. Len(blocks) |->
        [queue_id |-> blocks[i][1], gpu_count |-> blocks[i][2],
         estimated_memory_gb |-> blocks[i][3], uni_id |-> 1,
         status |-> "pending", retry_count |-> 0, backoff_until |-> 0,
         error_type |-> ""]]

RecordStates == {"none", "running", "normal_exit", "abnormal_exit"}
DispatchOutcomes == {"no_gpus", "started", "failed", "raise"}

\* utils/retry.py is_task_ready
is_task_ready(task) ==
    /\ task.status = "pending"
    /\ ~(task.backoff_until > 0 /\ now < task.backoff_until)

\* utils/retry.py handle_task_retry; the new uni_id has no record yet
handle_task_retry(task, error_type) ==
    [task EXCEPT
        !.status = "pending",
        !.retry_count = @ + 1,
        !.error_type = error_type,
        !.backoff_until =
            IF (task.retry_count + 1) % retry_config.max_retry_before_backoff = 0
            THEN now + retry_config.backoff_duration ELSE @,
        !.uni_id = @ + 1]

\* check_and_handle_finished_tasks, the loop body for one task
check_task(task, record) ==
    IF task.status # "running" /\ task.status # "completed" THEN task
    ELSE IF record = "none" THEN task
    ELSE IF record = "normal_exit"
         THEN [task EXCEPT !.status = "completed"]
    ELSE IF record = "abnormal_exit" /\ task.status = "running"
         THEN handle_task_retry(task, "unknown")
         ELSE task

\* get_busy_queues: queues with a task whose record is running
get_busy_queues(tasks, records) ==
    {tasks[i].queue_id : i \in {j \in 1 .. Len(tasks) : records[j] = "running"}}

\* get_queue_head_task: index of the first pending task of the queue, 0 if
\* there is none
get_queue_head_task(tasks, queue_id) ==
    LET pending == {i \in 1 .. Len(tasks) :
                       tasks[i].queue_id = queue_id /\ tasks[i].status = "pending"}
    IN IF pending = {} THEN 0
       ELSE CHOOSE i \in pending : \A j \in pending : i <= j

\* run(): the ready head tasks of the queues that are not busy
candidate_tasks(tasks, records) ==
    {i \in 1 .. Len(tasks) :
        /\ tasks[i].queue_id \notin get_busy_queues(tasks, records)
        /\ get_queue_head_task(tasks, tasks[i].queue_id) = i
        /\ is_task_ready(tasks[i])}

\* _sort_candidate_tasks: by (-gpu_count, queue_id)
RECURSIVE sort_candidate_tasks(_, _)
sort_candidate_tasks(tasks, cands) ==
    IF cands = {} THEN <<>>
    ELSE LET first == CHOOSE i \in cands : \A j \in cands :
                        \/ tasks[i].gpu_count > tasks[j].gpu_count
                        \/ /\ tasks[i].gpu_count = tasks[j].gpu_count
                           /\ tasks[i].queue_id <= tasks[j].queue_id
         IN <<first>> \o sort_candidate_tasks(tasks, cands \ {first})

\* run(), the loop over the sorted candidates: no devices (continue),
\* execute_task returning True (status completed) or False (status failed),
\* or raising at cmd_template.format with the status left running, which
\* ends run().
RECURSIVE dispatch_tasks(_, _, _)
dispatch_tasks(tasks, order, outcomes) ==
    IF order = <<>> THEN [tasks |-> tasks, raised |-> FALSE]
    ELSE IF outcomes[Head(order)] = "no_gpus"
         THEN dispatch_tasks(tasks, Tail(order), outcomes)
    ELSE IF outcomes[Head(order)] = "raise"
         THEN [tasks |-> [tasks EXCEPT ![Head(order)].status = "running"],
               raised |-> TRUE]
         ELSE dispatch_tasks(
                  [tasks EXCEPT ![Head(order)].status =
                      IF outcomes[Head(order)] = "started" THEN "completed"
                      ELSE "failed"],
                  Tail(order), outcomes)

LegacyInit ==
    /\ gpus = [i \in 1 .. NumGpus |-> i - 1]
    /\ maximize_resource_utilization = FALSE
    /\ memory_save_mode = TRUE
    /\ gpu_left = 0
    /\ min_gpu = 1
    /\ max_gpu = NumGpus
    /\ retry_config = [max_retry_before_backoff |-> 1, backoff_duration |-> 1]
    /\ queues = SetupTasks(command_tasks)
    /\ queue_keys = KeysOf(command_tasks)
    /\ occupied_gpus = <<>>
    /\ gpu_lock = NoQueue
    /\ running = TRUE
    /\ status_writer = TRUE
    /\ supervisor = "waiting"
    /\ now = 0
    /\ pc = [q \in QueueIdsOf(command_tasks) |-> "queued"]
    /\ sink = [q \in QueueIdsOf(command_tasks) |-> <<>>]
    /\ executions = [q \in QueueIdsOf(command_tasks) |->
                       [i \in 1 .. Len(BlocksOf(command_tasks, q)) |-> 0]]
    /\ execution = <<>>
    /\ task_idx = [q \in QueueIdsOf(command_tasks) |-> 1]
    /\ gpu_ids = [q \in QueueIdsOf(command_tasks) |-> <<>>]
    /\ admission = [q \in QueueIdsOf(command_tasks) |-> NoAdmission]
    /\ candidate_gpus = [q \in QueueIdsOf(command_tasks) |-> <<>>]
    /\ result = [q \in QueueIdsOf(command_tasks) |-> "none"]
    /\ outstanding = [q \in QueueIdsOf(command_tasks) |-> 0]
    /\ attempts = [q \in QueueIdsOf(command_tasks) |->
                     [i \in 1 .. Len(BlocksOf(command_tasks, q)) |-> 0]]
    /\ quota = <<>>
    /\ selection = <<>>
    /\ legacy = [tasks |-> LegacySetupTasks(legacy_tasks),
                 records |-> [i \in 1 .. Len(legacy_tasks) |-> "none"],
                 at |-> "check"]

LegacyFrame ==
    UNCHANGED <<configVars, queues, queue_keys, occupied_gpus, gpu_lock,
                running, now, pc, task_idx, gpu_ids, admission,
                candidate_gpus, result, outstanding, attempts, quota,
                supervisor, selection, sink, executions, execution>>

\* run(), first half of an iteration: check_and_handle_finished_tasks, then
\* the test whether every task is completed
LegacyCheck ==
    /\ legacy.at = "check"
    /\ LET checked == [i \in 1 .. Len(legacy.tasks) |->
                          check_task(legacy.tasks[i], legacy.records[i])]
       IN legacy' = [legacy EXCEPT
              !.tasks = checked,
              !.records = [i \in 1 .. Len(checked) |->
                              IF checked[i].uni_id # legacy.tasks[i].uni_id
                              THEN "none" ELSE legacy.records[i]],
              !.at = IF \A i \in 1 .. Len(checked) :
                           checked[i].status = "completed"
                     THEN "stopped" ELSE "dispatch"]
    /\ LegacyFrame

\* run(), second half of an iteration: dispatch the candidates, or sleep
\* when there is none
LegacyDispatch ==
    /\ legacy.at = "dispatch"
    /\ LET cands == candidate_tasks(legacy.tasks, legacy.records)
       IN \E outcomes \in [cands -> DispatchOutcomes] :
            LET done == dispatch_tasks(legacy.tasks,
                            sort_candidate_tasks(legacy.tasks, cands),
                            outcomes)
            IN legacy' = [legacy EXCEPT
                   !.tasks = done.tasks,
                   !.at = IF done.raised THEN "crashed" ELSE "check"]
    /\ LegacyFrame

\* the background process of a dispatched task writes its record: running,
\* then normal_exit or abnormal_exit
LegacyProcess ==
    /\ \E i \in 1 .. Len(legacy.tasks), state \in RecordStates :
         /\ legacy.tasks[i].status # "pending"
         /\ \/ legacy.records[i] = "none" /\ state = "running"
            \/ /\ legacy.records[i] = "running"
               /\ state \in {"normal_exit", "abnormal_exit"}
         /\ legacy' = [legacy EXCEPT !.records[i] = state]
    /\ LegacyFrame

\* the wall clock advances (time.sleep in run())
LegacyTick == TickWithin(MaxTime)

LegacyNext == LegacyCheck \/ LegacyDispatch \/ LegacyProcess \/ LegacyTick

SpecLegacy == LegacyInit /\ [][LegacyNext]_vars

\* ------------------------------------------------------------- properties
InAttempt(q) == pc[q] \in {"acquired", "executing", "finally"}

\* step in which queue q is handed devices by _wait_for_gpus
AcquireStep(q) == pc[q] \in {"filter", "select"} /\ pc'[q] = "acquired"

RunningTasks(q) ==
    {i \in 1 .. Len(queues[q]) : queues[q][i].status = "running"}

\* candidate devices in the ownership map occ or seen foreign-occupied
HeldByUser(occ, foreign) ==
    {d \in Range(gpus) : d \in DOMAIN occ \/ d \in foreign}

\* C1: mutual exclusion - in every reachable state, whatever the mode and
\* the probe readings, no device is in the device sets of two different
\* queues between their acquisition and their release.
C1_MutualExclusion ==
    \A q1 \in QueueIds : \A q2 \in QueueIds :
        q1 # q2 => RunningDevices(q1) \cap RunningDevices(q2) = {}

\* C2: intra-queue serialism - in every reachable state every queue has at
\* most one task whose status is "running".
C2_IntraQueueSerial ==
    \A q \in QueueIds : Cardinality(RunningTasks(q)) <= 1

\* a queue runs its second task after its first one completed
C2_Witness ==
    \E q \in QueueIds :
        /\ Len(queues[q]) >= 2
        /\ queues[q][1].status = "completed"
        /\ queues[q][2].status = "running"

\* C3: strict FIFO inside a queue - a task goes from not running to running
\* only when every earlier task of its queue has status "completed".
C3_StrictFifo ==
    [][\A q \in QueueIds : \A j \in 1 .. Len(queues[q]) :
          (queues[q][j].status # "running" /\ queues'[q][j].status = "running")
          => \A i \in 1 .. (j - 1) : queues[q][i].status = "completed"]_vars

\* a later task of a queue has been started
C3_Witness ==
    \E q \in QueueIds :
        /\ task_idx[q] = 2
        /\ pc[q] = "executing"
        /\ RunningTasks(q) = {2}

\* C4: admission bound - every acquisition is made under gpu_lock after a
\* successful admission check of the same critical section, and right after
\* it the candidate devices in the ownership map or foreign-occupied (as
\* read by that check) number at most the max_allowed computed by that check.
C4_AdmissionBound ==
    [][\A q \in QueueIds : AcquireStep(q) =>
          /\ gpu_lock = q
          /\ admission[q] # NoAdmission
          /\ Cardinality(HeldByUser(occupied_gpus', admission[q].user_procs))
                <= admission[q].max_allowed]_vars

\* an acquisition has just filled the quota ceiling
C4_Witness ==
    \E q \in QueueIds :
        /\ pc[q] = "acquired"
        /\ CurrentTask(q).gpu_count = 2
        /\ Cardinality(DOMAIN occupied_gpus) = max_gpu

\* C5: max_gpu is a ceiling - in every reachable state, in both modes, the
\* number of distinct devices on which queues currently run (handed out and
\* not yet released by that queue) is at most max_gpu.
C5_MaxGpuCeiling ==
    Cardinality(UNION {RunningDevices(q) : q \in QueueIds}) <= max_gpu

\* C6 (as claimed): the quota returned by _get_max_allowed_gpus is at least
\* min_gpu for every probe reading and every (gpu_left, min_gpu, max_gpu).
C6_MinGpuFloor ==
    quota.max_allowed # -1 => quota.max_allowed >= min_gpu

\* C6 (amended): whenever min_gpu <= max_gpu, the quota returned by
\* _get_max_allowed_gpus is at least min_gpu, also when available - gpu_left
\* is lower; with min_gpu > max_gpu the ceiling max_gpu wins.
C6_MinGpuFloorBelowCeiling ==
    (quota.max_allowed # -1 /\ min_gpu <= max_gpu)
        => quota.max_allowed >= min_gpu

\* the floor lifts the quota above available - gpu_left
C6_Witness ==
    /\ quota.max_allowed # -1
    /\ min_gpu <= max_gpu
    /\ Cardinality({d \in Range(gpus) : quota.mem[d] >= 1}) - gpu_left < min_gpu
    /\ quota.max_allowed = min_gpu
    /\ min_gpu > 0

\* number of candidate devices with at least 1 GiB free
AvailableCount(mem) == Cardinality({d \in Range(gpus) : mem[d] >= 1})

\* the S3 scenario: candidates [0,1,2], gpu_left=1, min_gpu=1, max_gpu=3,
\* device 2 at 0 GiB, a request for two devices
ScenarioS3 ==
    /\ gpus = <<0, 1, 2>>
    /\ gpu_left = 1 /\ min_gpu = 1 /\ max_gpu = 3
    /\ quota.mem[2] = 0
    /\ quota.count = 2

\* C7: dynamic quota and admission decision - max_allowed =
\* max(0, min(max_gpu, max(min_gpu, available - gpu_left))) with available
\* the number of candidates with >= 1 GiB free; a request for n devices is
\* admitted iff devices held by the user + n <= max_allowed; in scenario S3
\* a request for two devices is never admitted.
C7_QuotaAndAdmission ==
    /\ quota.max_allowed # -1 =>
          quota.max_allowed =
             Max(0, Min(max_gpu, Max(min_gpu, AvailableCount(quota.mem) - gpu_left)))
    /\ quota.decision # "none" =>
          (quota.decision = "admitted" <=>
             Cardinality(HeldByUser(occupied_gpus,
                                    {d \in GpuIds : quota.procs[d]}))
                + quota.count <= quota.max_allowed)
    /\ (ScenarioS3 /\ quota.decision # "none") => quota.decision = "denied"

\* scenario S3 with devices 0 and 1 free and nothing held: the request for
\* two devices is denied on a quota of 1
C7_Witness ==
    /\ ScenarioS3
    /\ quota.mem[0] >= 1 /\ quota.mem[1] >= 1
    /\ occupied_gpus = <<>>
    /\ \A d \in GpuIds : ~quota.procs[d]
    /\ quota.max_allowed = 1
    /\ quota.decision = "denied"

\* C8: ownership release - every acquisition by a queue is followed by
\* exactly one _release_gpus of those devices on every path (success,
\* failure, exception) before its worker waits for devices again, moves to
\* another task or ends: outside an attempt the queue has no acquisition
\* outstanding and owns no entry of the ownership map, inside it exactly one.
C8_OwnershipRelease ==
    /\ \A q \in QueueIds : outstanding[q] = (IF InAttempt(q) THEN 1 ELSE 0)
    /\ \A d \in DOMAIN occupied_gpus : InAttempt(occupied_gpus[d])

\* a failed attempt has released its devices and the worker is about to retry
C8_Witness ==
    \E q \in QueueIds :
        /\ pc[q] = "retry_sleep"
        /\ CurrentTask(q).retry_count > 0
        /\ outstanding[q] = 0

\* C9: acquire/release round trip - for every ownership map from which a
\* queue acquires a device set, in both modes, releasing that set for that
\* queue right after the acquisition gives back the map as it was.
C9_AcquireReleaseRoundTrip ==
    [][\A q \in QueueIds : AcquireStep(q) =>
          release_gpus(occupied_gpus', gpu_ids'[q], q) = occupied_gpus]_vars

\* C10: acquire only on unowned devices - whenever a worker inserts a
\* mapping device -> queue, the device had no owner immediately before; an
\* existing mapping is never overwritten.
C10_AcquireOnlyUnowned ==
    [][\A q \in QueueIds : AcquireStep(q) =>
          Range(gpu_ids'[q]) \cap DOMAIN occupied_gpus = {}]_vars

\* step in which an attempt of queue q's current task fails recoverably
FailStep(q) ==
    pc[q] = "executing" /\ pc'[q] = "finally" /\ result'[q] \in ErrorKinds

\* C11: retry update rule - on every recoverable failure of a running task
\* (non-zero exit, timeout, exception in the command) error_type becomes the
\* kind tag, retry_count grows by exactly 1, the status returns to "pending",
\* and backoff_until becomes now + backoff_duration iff the new retry_count
\* is a multiple of max_retry_before_backoff, else it is left unchanged.
C11_RetryUpdateRule ==
    [][\A q \in QueueIds : FailStep(q) =>
          LET old == CurrentTask(q)
              new == queues'[q][task_idx[q]]
          IN /\ old.status = "running"
             /\ new.error_type = result'[q]
             /\ new.retry_count = old.retry_count + 1
             /\ new.status = "pending"
             /\ new.backoff_until =
                   (IF new.retry_count % retry_config.max_retry_before_backoff = 0
                    THEN now + retry_config.backoff_duration
                    ELSE old.backoff_until)
             /\ new.backoff_until # old.backoff_until <=>
                   new.retry_count % retry_config.max_retry_before_backoff = 0]_vars

\* a timeout after an earlier backoff that does not enter backoff itself
C11_Witness ==
    \E q \in QueueIds :
        /\ pc[q] = "finally"
        /\ result[q] = "timeout"
        /\ CurrentTask(q).error_type = "timeout"
        /\ CurrentTask(q).retry_count = retry_config.max_retry_before_backoff + 1
        /\ retry_config.max_retry_before_backoff = ShortCadence
        /\ CurrentTask(q).backoff_until = 1
        /\ now = 1

\* step in which a failure of queue q's current task enters backoff
BackoffEntry(q) ==
    /\ FailStep(q)
    /\ queues'[q][task_idx[q]].backoff_until # CurrentTask(q).backoff_until

\* C12: retry cadence - for a task whose commands keep failing, the number
\* of pending -> running transitions between two consecutive backoff entries
\* (and before the first one) equals max_retry_before_backoff: a backoff
\* entry comes after exactly that many starts, never later.
C12_RetryCadence ==
    [][\A q \in QueueIds :
          /\ BackoffEntry(q) =>
                attempts[q][task_idx[q]] = retry_config.max_retry_before_backoff
          /\ \A i \in 1 .. Len(queues[q]) :
                attempts'[q][i] <= retry_config.max_retry_before_backoff]_vars

\* the second backoff entry of a task, after twice the period of failures
C12_Witness ==
    \E q \in QueueIds :
        /\ pc[q] = "finally"
        /\ CurrentTask(q).retry_count = 2 * retry_config.max_retry_before_backoff
        /\ attempts[q][task_idx[q]] = 0
        /\ CurrentTask(q).backoff_until = 2

\* C13: retry ceiling - once a task's retry_count has reached the ceiling of
\* 100 and its worker has given it up, the task's status is "failed"; it is
\* not left "pending".
C13_RetryCeilingFails ==
    \A q \in QueueIds : \A i \in 1 .. Len(queues[q]) :
        (queues[q][i].retry_count >= max_total_retries /\ pc[q] = "finished")
            => queues[q][i].status = "failed"

\* step in which the worker of queue q leaves its current task uncompleted
\* (_execute_task_with_retry returned False)
GiveUpStep(q) ==
    /\ pc[q] \in {"retry_loop", "wait_gpus", "filter", "select", "finally"}
    /\ CurrentTask(q).status # "completed"
    /\ pc'[q] = "finished" \/ task_idx'[q] # task_idx[q]

C15_RetryAnnouncedIsRetried ==
    [][\A q \in QueueIds :
          (/\ pc[q] = "retry_loop"
           /\ CurrentTask(q).retry_count > 0
           /\ pc'[q] = "finished") => ~running]_vars

\* devices of the attempt of queue q that the ownership map gives to q
OwnedOfAttempt(q) ==
    {d \in Range(gpu_ids[q]) :
        d \in DOMAIN occupied_gpus /\ occupied_gpus[d] = q}

\* C16: release precedes the state transition - there is no reachable state
\* in which, after a failed attempt, the task is already "pending" again
\* (retry_count incremented) while its queue still owns devices of that
\* attempt in the ownership map.
C16_ReleaseBeforeTransition ==
    \A q \in QueueIds :
        (result[q] \in ErrorKinds /\ OwnedOfAttempt(q) # {})
            => CurrentTask(q).status = "running"

\* C17: a task holds devices only while running - in every reachable state
\* the assigned_gpus of every task whose status is not "running" is empty,
\* also after the task completed, after a failed attempt and during backoff.
C17_DevicesOnlyWhileRunning ==
    \A q \in QueueIds : \A i \in 1 .. Len(queues[q]) :
        queues[q][i].status # "running" => queues[q][i].assigned_gpus = <<>>

\* task i of queue q is completed or has used up its retries
Terminal(q, i) ==
    \/ queues[q][i].status = "completed"
    \/ queues[q][i].retry_count >= max_total_retries

\* C18: terminal states are absorbing - once a task is "completed", or has
\* reached the retry ceiling, no step of any worker changes its status,
\* retry_count or backoff_until, and it is never started again.
C18_TerminalAbsorbing ==
    [][\A q \in QueueIds : \A i \in 1 .. Len(queues[q]) :
          Terminal(q, i) =>
              /\ queues'[q][i].status = queues[q][i].status
              /\ queues'[q][i].retry_count = queues[q][i].retry_count
              /\ queues'[q][i].backoff_until = queues[q][i].backoff_until
              /\ attempts'[q][i] = attempts[q][i]]_vars

\* a task completed after failed attempts and the next task of its queue is
\* being executed
C18_Witness ==
    \E q \in QueueIds :
        /\ Len(queues[q]) >= 2
        /\ queues[q][1].status = "completed"
        /\ queues[q][1].retry_count > 0
        /\ queues[q][1].backoff_until > 0
        /\ task_idx[q] = 2
        /\ pc[q] = "executing"

\* C19: backoff monotonicity - with a non-decreasing clock, no step makes
\* the backoff_until of a task smaller: every value written is at least the
\* previous one, and a deadline once set is never reset to 0.
C19_BackoffMonotonic ==
    [][\A q \in QueueIds : \A i \in 1 .. Len(queues[q]) :
          /\ queues'[q][i].backoff_until >= queues[q][i].backoff_until
          /\ queues[q][i].backoff_until > 0 =>
                queues'[q][i].backoff_until > 0]_vars

\* a task whose backoff deadline was written twice is past its second
\* backoff and at the head of the retry loop
C19_Witness ==
    \E q \in QueueIds :
        /\ pc[q] = "retry_loop"
        /\ retry_config.max_retry_before_backoff = ShortCadence
        /\ CurrentTask(q).retry_count = 2 * ShortCadence
        /\ CurrentTask(q).backoff_until = 2
        /\ now = 2

\* C20: backoff gating - a worker waits for devices (_wait_for_gpus, up to
\* the acquisition) only for a task that is ready, i.e. status "pending" and
\* now >= backoff_until, and execute_task runs no task before its deadline.
C20_BackoffGating ==
    \A q \in QueueIds :
        /\ pc[q] \in {"wait_gpus", "filter", "select", "acquired"} =>
              /\ CurrentTask(q).status = "pending"
              /\ now >= CurrentTask(q).backoff_until
        /\ pc[q] = "executing" =>
              /\ CurrentTask(q).status = "running"
              /\ now >= CurrentTask(q).backoff_until

\* a task that went through backoff is attempted again once its deadline
\* has passed
C20_Witness ==
    \E q \in QueueIds :
        /\ pc[q] = "executing"
        /\ CurrentTask(q).retry_count > 0
        /\ CurrentTask(q).backoff_until = 1
        /\ now = 1

\* C21: the ownership lock is never held across I/O or sleep - in every
\* reachable state a worker that holds gpu_lock is not about to run, or
\* running, the selector's sampling burst (30 samples, 100 ms sleeps), so
\* that no release of another worker waits for a burst to end.
C21_LockNotHeldWhileSampling ==
    \A q \in QueueIds : gpu_lock = q => pc[q] # "select"

\* devices that the ownership map occ gives to queue q
OwnedBy(occ, q) == {d \in DOMAIN occ : occ[d] = q}

\* C22: shutdown mid-wait - once self.running is False, a worker inside
\* _wait_for_gpus acquires no device and starts no task any more; at the
\* head of its next poll iteration it returns None (the queue ends) and
\* leaves no device owned by its queue in the ownership map.
C22_ShutdownMidWait ==
    [][\A q \in QueueIds : ~running =>
          /\ ~AcquireStep(q)
          /\ ~(pc[q] = "acquired" /\ pc'[q] = "executing")
          /\ (pc[q] = "wait_gpus" /\ pc'[q] # pc[q]) =>
                /\ pc'[q] = "finished"
                /\ OwnedBy(occupied_gpus', q) = {}]_vars

\* C23: cancellation reaches the workers - when the interrupt signal is
\* delivered while a worker is waiting for devices, in backoff or between
\* attempts, self.running is set to False with those workers still alive.
C23_CancellationReachesWorkers ==
    [][(/\ supervisor = "waiting"
        /\ supervisor' \notin {"waiting", "done"}
        /\ \E q \in QueueIds :
              pc[q] \in {"retry_loop", "wait_gpus", "retry_sleep"})
       => /\ running' = FALSE
          /\ \A q \in QueueIds : pc'[q] = pc[q]]_vars

\* step in which _wait_for_gpus of queue q returns None on its timeout
WaitTimeoutStep(q) ==
    /\ running
    /\ pc[q] \in {"wait_gpus", "filter"}
    /\ pc'[q] = "finished"

\* C24: device wait timeout - when _wait_for_gpus gives up after
\* wait_timeout, the worker aborts its queue, the task's last-error tag is
\* set to a resource-starvation kind (not a command-failure tag, not
\* empty), retry_count is unchanged, and the other queues are untouched.
C24_WaitTimeoutStarvation ==
    [][\A q \in QueueIds : WaitTimeoutStep(q) =>
          /\ queues'[q][task_idx[q]].error_type \notin ErrorKinds \cup {""}
          /\ queues'[q][task_idx[q]].retry_count = CurrentTask(q).retry_count
          /\ \A p \in QueueIds \ {q} :
                pc'[p] = pc[p] /\ queues'[p] = queues[p]]_vars

\* C25: one worker per queue, all started concurrently - whatever the
\* numbers of queues and candidate devices, a queue that has no worker yet
\* never has to wait for the worker of another queue to end: as long as some
\* queue is not started, a worker can start for the next submitted one.
C25_OneWorkerPerQueue ==
    (\E q \in QueueIds : pc[q] = "queued")
        => \E q \in QueueIds : ENABLED StartWorker(q)

\* every task of every queue is completed
AllCompleted ==
    \A q \in QueueIds : \A i \in 1 .. Len(queues[q]) :
        queues[q][i].status = "completed"

\* C26: progress under contention - under fair scheduling, when the device
\* wait does not time out and polls that pass admission find their devices,
\* a task whose worker waits for devices is eventually started, and the two
\* single-task queues contending for the one device they may use (the
\* single candidate device 0, or one of two under max_gpu = 1) both
\* eventually complete, never attempting their tasks at the same time.
C26_ProgressUnderContention ==
    /\ \A q \in QueueIdsOf(contend_tasks) :
          (pc[q] = "wait_gpus") ~> (pc[q] = "executing")
    /\ <>[]AllCompleted
    /\ [](\A q \in QueueIds : \A p \in QueueIds \ {q} :
             ~(InAttempt(q) /\ InAttempt(p)))

\* both queues completed, the second after a failed first attempt
C26_Witness ==
    /\ AllCompleted
    /\ supervisor = "done"
    /\ queues[2][1].retry_count = 1
    /\ queues[1][1].retry_count = 0

\* devices of the drawn candidate list whose averaged free memory reaches
\* the required memory
SelectValid ==
    {d \in Range(selection.gpu_ids) :
        /\ selection.stats[d] # NoStats
        /\ selection.stats[d].memory_free >= selection.required_memory}

\* the stated key of device a is strictly below that of device b: save mode
\* (memory_utilization * free, free), safe mode (memory_utilization * used,
\* used), memory_utilization = used / total
StatedKeyLess(a, b) ==
    LET sa == selection.stats[a]
        sb == selection.stats[b]
        fa == IF memory_save_mode THEN sa.memory_free ELSE sa.memory_used
        fb == IF memory_save_mode THEN sb.memory_free ELSE sb.memory_used
    IN \/ sa.memory_used * fa * sb.memory_total
            < sb.memory_used * fb * sa.memory_total
       \/ /\ sa.memory_used * fa * sb.memory_total
              = sb.memory_used * fb * sa.memory_total
          /\ fa < fb

\* C27: after select_best_gpus, the selected list holds only candidates with
\* enough averaged free memory, without repeats, has min(count, number of
\* such candidates) entries (so at most min(count, number of candidates)),
\* is ascending in the mode's (primary, secondary) key, and no candidate left
\* out has a key below that of a selected one.
C27_SelectorResult ==
    selection.called =>
        LET sel == selection.selected
        IN /\ Range(sel) \subseteq SelectValid
           /\ \A i, j \in 1 .. Len(sel) : i # j => sel[i] # sel[j]
           /\ Len(sel) = Min(selection.count, Cardinality(SelectValid))
           /\ Len(sel) <= Min(selection.count, Len(selection.gpu_ids))
           /\ \A i, j \in 1 .. Len(sel) :
                 i < j => ~StatedKeyLess(sel[j], sel[i])
           /\ \A d \in SelectValid \ Range(sel) : \A i \in 1 .. Len(sel) :
                 ~StatedKeyLess(d, sel[i])

\* a call with count 1 on three candidates, one of them outside the valid
\* set, that selected of the two others the one passed later, for its lower
\* secondary key
C27_Witness ==
    /\ selection.called
    /\ selection.count = 1
    /\ Len(selection.selected) = 1
    /\ Range(selection.gpu_ids) \ SelectValid # {}
    /\ \E d \in SelectValid :
         /\ StatedKeyLess(selection.selected[1], d)
         /\ selection.stats[d].memory_used
              = selection.stats[selection.selected[1]].memory_used
         /\ \E i, j \in 1 .. Len(selection.gpu_ids) :
              /\ i < j
              /\ selection.gpu_ids[i] = d
              /\ selection.gpu_ids[j] = selection.selected[1]

\* the stated keys of devices a and b are equal
StatedKeyTie(a, b) == ~StatedKeyLess(a, b) /\ ~StatedKeyLess(b, a)

\* C28: after select_best_gpus, candidates of equal (primary, secondary) key
\* are in ascending device id: among the selected ones the smaller id comes
\* first, and a candidate left out does not have a smaller id than a
\* selected one of the same key.
C28_TieBreakAscendingId ==
    selection.called =>
        LET sel == selection.selected
        IN /\ \A i, j \in 1 .. Len(sel) :
                 i < j /\ StatedKeyTie(sel[i], sel[j]) => sel[i] < sel[j]
           /\ \A d \in SelectValid \ Range(sel) : \A i \in 1 .. Len(sel) :
                 StatedKeyTie(d, sel[i]) => sel[i] < d

\* candidate devices that, at the readings of the filter loop, were not in
\* the ownership map, had no other process of the user and had the required
\* free memory
Survivors ==
    {d \in Range(gpus) :
        /\ d \notin DOMAIN occupied_gpus
        /\ ~selection.procs[d]
        /\ selection.mem[d] >= selection.required_memory}

\* C29: when find_available_gpus has returned in non-maximize mode, it
\* returned None if admission was denied or fewer than gpu_count devices
\* survived the filter, and otherwise exactly gpu_count distinct devices,
\* all of them survivors of the filter.
C29_EligibilityFilter ==
    (~maximize_resource_utilization /\ selection.at = "returned") =>
        LET sel == selection.selected
        IN IF ~selection.admitted
              \/ Cardinality(Survivors) < selection.gpu_count
           THEN ~selection.found /\ sel = <<>>
           ELSE /\ selection.found
                /\ Len(sel) = selection.gpu_count
                /\ \A i, j \in 1 .. Len(sel) : i # j => sel[i] # sel[j]
                /\ Range(sel) \subseteq Survivors

\* a call that returned one device out of two survivors, the third device
\* being dropped for the user's other process on it, and chose the later one
C29_Witness ==
    /\ selection.at = "returned"
    /\ selection.found
    /\ selection.gpu_count = 1
    /\ Cardinality(Survivors) = 2
    /\ \E d \in Range(gpus) \ Survivors :
         /\ d \notin DOMAIN occupied_gpus
         /\ selection.mem[d] >= selection.required_memory
         /\ selection.procs[d]
    /\ \E d \in Survivors : d < selection.selected[1]

\* the ids of a list in ascending numeric order
RECURSIVE Ascending(_)
Ascending(S) ==
    IF S = {} THEN <<>>
    ELSE LET least == CHOOSE x \in S : \A y \in S : x <= y
         IN <<least>> \o Ascending(S \ {least})

\* C30: while the commands of an attempt run, the CUDA_VISIBLE_DEVICES value
\* they were given is the comma-joined list of the acquired device ids in
\* ascending numeric order.
C30_DeviceMaskAscending ==
    \A q \in QueueIds :
        pc[q] = "executing" =>
            cuda_devices(gpu_ids[q]) =
                cuda_devices(Ascending(Range(gpu_ids[q])))

\* the admission decision and, when admitted, the filtered candidates of a
\* poll of queue q that reads free memory mem and user processes procs
PollOutcome(q, mem, procs) ==
    IF can_acquire_more_gpus(CurrentTask(q).gpu_count,
           get_current_user_gpu_count(occupied_gpus, procs),
           get_max_allowed_gpus(mem))
    THEN <<TRUE, filter_candidates(occupied_gpus, mem, procs,
                                   CurrentTask(q).estimated_memory_gb)>>
    ELSE <<FALSE, <<>> >>

\* C31: in maximize mode a poll of _wait_for_gpus admits and filters the same
\* for any two readings of the user's other processes on the devices, all
\* else (ownership map, free memory, task) being equal.
C31_ForeignIgnoredInMaximize ==
    maximize_resource_utilization =>
        \A q \in QueueIds :
            (pc[q] = "wait_gpus" /\ running /\ gpu_lock = NoQueue) =>
                \A mem \in ProbeMem, procs1 \in ProbeProcs,
                   procs2 \in ProbeProcs :
                    PollOutcome(q, mem, procs1) = PollOutcome(q, mem, procs2)

\* step in which the worker of queue q ends by an exception
CrashStep(q) == pc[q] # "crashed" /\ pc'[q] = "crashed"

\* C32: the step in which a worker ends by an exception leaves every other
\* queue's tasks, position, ownership entries and the supervisor as they
\* were, and the supervisor has left its wait normally only when every
\* worker has ended.
C32_FailureIsolation ==
    /\ [][\A q \in QueueIds :
            CrashStep(q) =>
                /\ \A r \in QueueIds \ {q} :
                      /\ pc'[r] = pc[r]
                      /\ task_idx'[r] = task_idx[r]
                      /\ queues'[r] = queues[r]
                      /\ OwnedBy(occupied_gpus', r) = OwnedBy(occupied_gpus, r)
                /\ supervisor' = supervisor
                /\ running' = running]_vars
    /\ [](supervisor = "done" =>
            \A q \in QueueIds : pc[q] \in {"finished", "crashed"})

\* one worker ended by an exception, the other completed its task, and the
\* supervisor left its wait
C32_Witness ==
    /\ supervisor = "done"
    /\ \E q \in QueueIds :
         /\ pc[q] = "crashed"
         /\ \E r \in QueueIds \ {q} :
              /\ pc[r] = "finished"
              /\ queues[r][1].status = "completed"

\* C33: with a status writer, the events of a queue since the start of its
\* last attempt are one task_start carrying a device acquired for the
\* attempt, followed once the attempt is over by exactly one task_success
\* or task_fail.
C33_SinkEventProtocol ==
    status_writer =>
        \A q \in QueueIds :
            LET log == sink[q]
            IN /\ Len(log) <= 2
               /\ log # <<>> => log[1].type = "task_start"
               /\ Len(log) = 2 => log[2].type \in {"task_success", "task_fail"}
               /\ pc[q] \in {"executing", "finally"} =>
                     /\ Len(log) = 1
                     /\ log[1].gpu \in Range(gpu_ids[q])
               /\ (pc[q] \notin {"executing", "finally"} /\ log # <<>>) =>
                     Len(log) = 2

\* C34: when find_available_gpus has returned after more than gpu_count
\* devices survived the filter and the selector's sampled result had fewer
\* than gpu_count devices, it returned the first gpu_count devices of the
\* filtered candidate list, in candidate order.
C34_DegradedFallback ==
    (/\ selection.at = "returned"
     /\ Len(selection.candidate_gpus) > selection.gpu_count
     /\ Len(selection.best_gpus) < selection.gpu_count) =>
        /\ selection.found
        /\ selection.selected =
             SubSeq(selection.candidate_gpus, 1, selection.gpu_count)

\* a fallback of two devices out of three candidates, of which the sampling
\* kept one only, and not the first
C34_Witness ==
    /\ selection.at = "returned"
    /\ selection.gpu_count = 2
    /\ Len(selection.candidate_gpus) = 3
    /\ Len(selection.best_gpus) = 1
    /\ selection.best_gpus[1] \notin Range(selection.selected)
    /\ selection.found
    /\ Len(selection.selected) = 2

\* commands of the last call that did not exit with code 0
NotSucceeded ==
    {i \in 1 .. Len(execution.outcomes) : execution.outcomes[i] # "exit_0"}

\* C35: after a call of execute_task, first attempt or retry, the commands
\* run are those from the first of the list, in list order, up to and
\* including the first that exits non-zero, times out or raises (up to but
\* excluding one whose template cannot be formatted); the call returned True
\* exactly when every command exited with code 0, and False when a command
\* that was run failed.
C35_CommandSequencing ==
    execution.calls > 0 =>
        LET ran == execution.ran
            n == Len(execution.outcomes)
        IN /\ n = execution.commands
           /\ ran = [i \in 1 .. Len(ran) |-> i]
           /\ (execution.returned = "True") <=> (NotSucceeded = {})
           /\ NotSucceeded = {} => Len(ran) = n
           /\ NotSucceeded # {} =>
                 LET first == CHOOSE i \in NotSucceeded :
                                 \A j \in NotSucceeded : i <= j
                 IN IF execution.outcomes[first] = "format_error"
                    THEN Len(ran) = first - 1 /\ execution.returned = "raised"
                    ELSE Len(ran) = first /\ execution.returned = "False"

\* a retry that ran two commands of three from the first and stopped at the
\* second, which timed out
C35_Witness ==
    /\ execution.calls = 2
    /\ execution.commands = 3
    /\ execution.ran = <<1, 2>>
    /\ execution.outcomes[2] = "timeout"
    /\ execution.returned = "False"

\* the worker of queue q sleeps in backoff, sleeps the 5 s before a retry,
\* or has finished its queue
NotExecuting(q) ==
    \/ pc[q] = "retry_loop" /\ running /\ in_backoff(CurrentTask(q))
    \/ pc[q] = "retry_sleep"
    \/ pc[q] = "finished"

\* C36: while a worker sleeps in backoff or in the pause before a retry, or
\* has finished its queue, no entry of the ownership map has its queue as
\* owner.
C36_NoDevicesWhileNotExecuting ==
    \A q \in QueueIds :
        NotExecuting(q) => OwnedBy(occupied_gpus, q) = {}

\* a worker in backoff after a failed attempt on a device, while the other
\* queue owns a device
C36_Witness ==
    \E q \in QueueIds :
        /\ pc[q] = "retry_loop"
        /\ in_backoff(CurrentTask(q))
        /\ CurrentTask(q).retry_count > 0
        /\ CurrentTask(q).assigned_gpus # <<>>
        /\ \E r \in QueueIds \ {q} : OwnedBy(occupied_gpus, r) # {}

\* C37: whenever every queue worker has ended, by completing or abandoning
\* its queue, by the scheduler stopping or by an exception, the ownership
\* map is empty, in maximize and in non-maximize mode.
C37_OwnershipMapDrains ==
    (\A q \in QueueIds : pc[q] \in {"finished", "crashed"}) =>
        occupied_gpus = <<>>

\* maximize mode: all workers ended after two queues had acquired the same
\* device, one of them with a task still pending
C37_Witness ==
    /\ maximize_resource_utilization
    /\ \A q \in QueueIds : pc[q] \in {"finished", "crashed"}
    /\ \E q, r \in QueueIds :
         /\ q # r
         /\ queues[q][1].assigned_gpus # <<>>
         /\ Range(queues[q][1].assigned_gpus)
              \cap Range(queues[r][1].assigned_gpus) # {}
         /\ \E i \in 1 .. Len(queues[r]) : queues[r][i].status = "pending"

\* step in which the worker of queue q gives its current task up at the
\* head of the retry loop while the scheduler is running
CeilingStep(q) ==
    /\ pc[q] = "retry_loop"
    /\ running
    /\ pc'[q] = "finished"

\* C38: no task is executed more than 100 times; every execution but the
\* one in progress or the last one (a success or an exception) has failed
\* and counted as a retry; a task is started only below 100 retries, and
\* the retry loop gives a task up exactly at 100 retries, after exactly 100
\* executions.
C38_BoundedAttempts ==
    /\ [](\A q \in QueueIds : \A i \in 1 .. Len(queues[q]) :
            /\ executions[q][i] <= max_total_retries
            /\ queues[q][i].retry_count <= executions[q][i]
            /\ executions[q][i] <= queues[q][i].retry_count + 1
            /\ (pc[q] = "retry_loop" /\ i = task_idx[q]) =>
                  executions[q][i] = queues[q][i].retry_count)
    /\ [][\A q \in QueueIds :
            /\ (pc[q] = "acquired" /\ pc'[q] = "executing") =>
                  CurrentTask(q).retry_count < max_total_retries
            /\ CeilingStep(q) =>
                  /\ CurrentTask(q).retry_count = max_total_retries
                  /\ executions[q][task_idx[q]] = max_total_retries]_vars

\* a task given up after 100 failed executions
C38_Witness ==
    \E q \in QueueIds :
        /\ pc[q] = "finished"
        /\ queues[q][1].retry_count = max_total_retries
        /\ executions[q][1] = max_total_retries
        /\ queues[q][1].status = "pending"

\* C39: under fair scheduling every queue worker eventually ends and stays
\* ended, whatever the probes read and the commands return, and the
\* supervisor eventually sees all workers done and leaves its wait.
C39_Termination ==
    /\ <>[](\A q \in QueueIds : pc[q] \in {"finished", "crashed"})
    /\ <>(supervisor = "done")

\* the supervisor left its wait after the worker gave a task up at the
\* retry ceiling
C39_Witness ==
    /\ supervisor = "done"
    /\ \E q \in QueueIds :
         /\ pc[q] = "finished"
         /\ queues[q][1].retry_count = max_total_retries

\* C40: in the single-loop scheduler, the check of an iteration hands every
\* task whose process record reports abnormal_exit to handle_task_retry:
\* afterwards its status is pending and its retry_count is one higher.
C40_LegacyAbnormalExitRetried ==
    [][(legacy.at = "check" /\ legacy'.at # "check") =>
          \A i \in 1 .. Len(legacy.tasks) :
              legacy.records[i] = "abnormal_exit" =>
                  /\ legacy'.tasks[i].status = "pending"
                  /\ legacy'.tasks[i].retry_count
                       = legacy.tasks[i].retry_count + 1]_vars

====
